---------------------------- MODULE Spec2Model ----------------------------
(***************************************************************************)
(* A model of the ARCSI Landsat sensor classes (petebunting/arcsi):        *)
(*   - the aerosol-optical-depth (AOD) estimators of the Landsat 5 TM      *)
(*     class, estimateImageToAODUsingDDV and estimateImageToAODUsingDOS;   *)
(*   - extractHeaderParameters of the Landsat5TM, LandsatTM, LandsatETM    *)
(*     and Landsat2MSS classes.                                            *)
(*                                                                         *)
(* AOD values are counted in hundredths (0.05 is 5), so that the decimal   *)
(* arithmetic of the search is integer arithmetic.                         *)
(***************************************************************************)
EXTENDS Integers, Sequences, FiniteSets, TLC

(***************************************************************************)
(* Bounds of the model.                                                    *)
(***************************************************************************)
\* rows of the segment table (row 0 is the background clump)
MaxSegs == 2
\* the distances the radiative-transfer run can return are 0..MaxDist
MaxDist == 2
\* aotValMin and aotValMax lie within MaxWidth search steps of 0
MaxWidth == 2

(***************************************************************************)
(* Program constants.                                                      *)
(***************************************************************************)
\* the search step 0.05, in hundredths
AOTStep == 5
\* interpSmoothing = 10.0
InterpSmoothing == 10
\* the output floor 0.05 handed to the interpolator, in hundredths
InterpFloor == 5

VARIABLES
    est,            \* which estimator runs: "DDV" or "DOS"
    pc,             \* the phase the run is in
    aotValMin,      \* argument aotValMin
    aotValMax,      \* argument aotValMax
    nSegs,          \* len(MeanB1RAD): rows of the segment table
    PredictAOTFor,  \* RAT column "PredictAOTFor" (<< >> until written)
    numAOTValTests, \* local numAOTValTests (-1 until computed)
    i,              \* outer loop index
    j,              \* inner loop index
    cAOT,           \* local cAOT
    cDist,          \* local cDist
    minAOT,         \* local minAOT
    minDist,        \* local minDist
    aotVals,        \* local array aotVals
    ratAOT,         \* RAT column "AOT" (<< >> until written)
    searched,       \* the segment searched last (-1 before the first)
    evals,          \* the (candidate, distance) pairs evaluated for it
    nEvals,         \* per segment, the number of radiative-transfer runs
    interpCalls,    \* the calls made to interpolateImageFromPointData
    raised,         \* the exception that ended the run ("" if none)
    trail           \* the phases entered so far, in order

aodVars == <<est, pc, aotValMin, aotValMax, nSegs, PredictAOTFor,
             numAOTValTests, i, j, cAOT, cDist, minAOT, minDist, aotVals,
             ratAOT, searched, evals, nEvals, interpCalls, raised, trail>>

VARIABLES
    cls,            \* the sensor class of the object
    self,           \* the fields of the sensor object
    userSpInputImage, \* self.userSpInputImage
    headerParams,   \* local headerParams: the dict read from the header
    inProj,         \* local inProj: the projection of the header
    hpc,            \* the step extractHeaderParameters is at
    err,            \* the exception that ended the call (NoErr if none)
    reads,          \* the header keys looked up so far
    steps,          \* the steps of the call taken so far, in order
    selfBefore      \* the fields of the object when the call began

hdrVars == <<cls, self, userSpInputImage, headerParams, inProj, hpc, err,
             reads, steps, selfBefore>>

VARIABLES
    opCls,          \* the sensor class of the object the operation is called on
    opName,         \* the operation called
    debugMode,      \* self.debugMode
    given,          \* what the call finds: its arguments and the files' contents
    opPc,           \* the statement of the operation that runs next
    disk,           \* the files that exist
    written,        \* the files the call has written so far
    attempts,       \* the collaborator calls made so far, in order
    thrown,         \* the exception as it was raised (NoExc if none)
    reached,        \* the exception that reached the caller (NoExc if none)
    opEnd,          \* "Idle", "Running", "Returned" or "Raised"
    hasImageDataMask \* self.hasImageDataMask of the object

opsVars == <<opCls, opName, debugMode, given, opPc, disk, written, attempts,
             thrown, reached, opEnd, hasImageDataMask>>

VARIABLES
    manifest,       \* the lines of the file inFileDwnLst
    multiDwn,       \* argument multiDwn
    overwrite,      \* argument overwrite
    outFailLst,     \* argument outFailLst: TRUE for a path, FALSE for None
    outDIR,         \* the names of the files in the output directory
    fileLst,        \* local fileLst
    failsLst,       \* local failsLst
    entry,          \* the place in fileLst of the entry the loop is at
    failFile,       \* the lines of the failure-list file (NoFile if none)
    handled,        \* for each entry dealt with, in order, what happened
    dwnPc           \* "Idle", "Start", "Loop", "Done" or "Aborted"

dwnVars == <<manifest, multiDwn, overwrite, outFailLst, outDIR, fileLst,
             failsLst, entry, failFile, handled, dwnPc>>

VARIABLES
    sixCls,         \* the sensor class of the object
    sixOp,          \* "calc6SCoefficients" or "run6SToOptimiseAODValue"
    sixArgs,        \* the arguments of the call
    s6,             \* local s: the configuration of the Py6S.SixS object
    runs,           \* the configuration at each s.run() so far, in order
    outputs,        \* s.outputs.values, the outputs of the last run
    outLog,         \* the outputs of each run so far, in order
    sixsCoeffs,     \* local sixsCoeffs, the matrix being filled
    band,           \* the place of the band whose run is next
    result,         \* the value returned (NoResult if none)
    sixErr,         \* the exception that ended the call (NoErr if none)
    sixPc           \* "Idle", "Start", "Bands", "Returned" or "Raised"

sixVars == <<sixCls, sixOp, sixArgs, s6, runs, outputs, outLog, sixsCoeffs,
             band, result, sixErr, sixPc>>

VARIABLES
    lutCls,         \* the sensor class of the object
    lutOp,          \* the LUT operation the caller uses for the scene
    lutArgs,        \* the arguments of the call under way
    elevCoeffs,     \* parameter elevCoeffs or elevAOTCoeffs of the call
    lutHeld,        \* the table the caller has from the last return
    builderCalls,   \* the calls of the LUT builder in the call under way
    estimatorCalls, \* the calls of calc6SCoefficients in that call
    tablesBuilt,    \* the tables that the builder has made so far
    lutBefore,      \* the parameter as the caller gave it
    lutApplied,     \* the table passed to the apply step of the call
    lutResult,      \* the value the call returned
    lutErr,         \* the exception that ended the call
    lutCalls,       \* the calls the caller has made
    lutFailed,      \* the calls that raised
    threaded,       \* every call but the first was given the caller's table
    lutPc           \* "Idle", "Caller", "Called", "Built", "Applied", "Raised"

lutVars == <<lutCls, lutOp, lutArgs, elevCoeffs, lutHeld, builderCalls,
             estimatorCalls, tablesBuilt, lutBefore, lutApplied, lutResult, lutErr,
             lutCalls, lutFailed, threaded, lutPc>>

VARIABLES
    ordRows,        \* the rows of a segment table, by segment id
    ordMin,         \* argument aotValMin of the run over the table
    ordTests,       \* numAOTValTests of the run
    ordSeq,         \* the segment ids in the order of the rows dealt with
    ordBest,        \* locals minAOT and minDist of the run
    ordAOT,         \* the AOT assigned to each segment id dealt with
    ordPc           \* "Idle" or "Search"

ordVars == <<ordRows, ordMin, ordTests, ordSeq, ordBest, ordAOT, ordPc>>

VARIABLES
    hFile,          \* the lines of the header file, each a list of characters
    lineNo,         \* the number of lines the reader has dealt with
    mtlParams,      \* the dict headerParams the reader builds
    mtlPc           \* "Idle" or "Read"

mtlVars == <<hFile, lineNo, mtlParams, mtlPc>>
vars == <<aodVars, hdrVars, opsVars, dwnVars, sixVars, lutVars, ordVars, mtlVars>>

\* the variables the AOD estimators leave alone
besidesAOD == <<hdrVars, opsVars, dwnVars, sixVars, lutVars, ordVars, mtlVars>>
\* the variables extractHeaderParameters leaves alone
besidesHdr == <<aodVars, opsVars, dwnVars, sixVars, lutVars, ordVars, mtlVars>>
\* the variables the mask, cloud and target operations leave alone
besidesOps == <<aodVars, hdrVars, dwnVars, sixVars, lutVars, ordVars, mtlVars>>
\* the variables the download leaves alone
besidesDwn == <<aodVars, hdrVars, opsVars, sixVars, lutVars, ordVars, mtlVars>>
\* the variables the radiative-transfer runs leave alone
besidesSix == <<aodVars, hdrVars, opsVars, dwnVars, lutVars, ordVars, mtlVars>>
\* the variables the LUT operations leave alone
besidesLut == <<aodVars, hdrVars, opsVars, dwnVars, sixVars, ordVars, mtlVars>>

\* the variables a search over a reordered table leaves alone
besidesOrd == <<aodVars, hdrVars, opsVars, dwnVars, sixVars, lutVars,
               mtlVars>>

\* the variables the reader of the header file leaves alone
besidesMtl == <<aodVars, hdrVars, opsVars, dwnVars, sixVars, lutVars,
               ordVars>>


Phases == <<"SelectTargets", "PopulateAttributes", "ChooseGrid",
            "SearchAOD", "Interpolate", "Done">>

\* the values given for aotValMin and aotValMax, in hundredths: whole
\* numbers of steps (0.05, 0.10) and values between them (0.02, 0.07)
AOTInputs == {(AOTStep * k) + r : k \in 0..MaxWidth, r \in {0, 2}}
Dists == 0..MaxDist
SegIds == 0..(nSegs - 1)

\* the column of a table with n rows that holds v in every row
Column(n, v) == [s \in 0..(n - 1) |-> v]

\* Eastings and Northings written by spatialLocation: the centroid of clump s
Easting(s) == 100 + s
Northing(s) == 200 + s

(***************************************************************************)
(* math.ceil(w / 0.05) for a width w in hundredths.  In binary floating    *)
(* point the quotient of a width that is a whole number of steps can round *)
(* to just above the integer ((0.20 - 0.05)/0.05 = 3.0000000000000004), so *)
(* the ceiling is then the exact one or one more; up says which.           *)
(***************************************************************************)
CeilSteps(w, up) ==
    IF w % AOTStep = 0
    THEN (w \div AOTStep) + (IF up THEN 1 ELSE 0)
    ELSE (w \div AOTStep) + 1

\* numAOTValTests = int(math.ceil((aotValMax - aotValMin)/0.05))+1
NumAOTValTests(lo, hi, up) == CeilSteps(hi - lo, up) + 1

\* if not numAOTValTests >= 1: raise
RangeRejected(n) == ~(n >= 1)

\* a search that starts one step above aotValMin
CandidateFromNextStep(lo, k) == lo + (AOTStep * (k + 1))

\* cAOT = aotValMin + (0.05 * j)
Candidate(lo, k) == lo + (AOTStep * k)

\* an update that also replaces the best candidate on an equal distance
UpdateBestOnTie(k, c, d, bestAOT, bestDist) ==
    IF k = 0 THEN <<c, d>>
    ELSE IF d <= bestDist THEN <<c, d>>
    ELSE <<bestAOT, bestDist>>

\* an update that sets the best candidate anew only while minAOT and
\* minDist have the values they were given before the loops
UpdateBestWhileUnset(k, c, d, bestAOT, bestDist) ==
    IF bestAOT = 0 /\ bestDist = 0 THEN <<c, d>>
    ELSE IF d < bestDist THEN <<c, d>>
    ELSE <<bestAOT, bestDist>>

\* if j == 0: ... elif cDist < minDist: ...   gives <<minAOT, minDist>>
UpdateBest(k, c, d, bestAOT, bestDist) ==
    IF k = 0 THEN <<c, d>>
    ELSE IF d < bestDist THEN <<c, d>>
    ELSE <<bestAOT, bestDist>>

\* a search that does not look at the flag
SearchSegmentAny(flag) == flag >= 0

\* if PredictAOTFor[i] == 1:
SearchSegment(flag) == flag = 1

\* X[PredictAOTFor!=0]: the rows of column X whose flag is not 0, in order
RECURSIVE MaskFrom(_, _, _, _)
MaskFrom(X, flags, s, n) ==
    IF s >= n THEN << >>
    ELSE IF flags[s] # 0 THEN <<X[s]>> \o MaskFrom(X, flags, s + 1, n)
    ELSE MaskFrom(X, flags, s + 1, n)

Mask(X, flags, n) == MaskFrom(X, flags, 0, n)

\* a handler that records the exception and carries on
RaiseAndCarryOn(e) ==
    /\ pc' = pc
    /\ raised' = e

\* except Exception as e: raise e  -- the run ends, nothing later executes
Raise(e) ==
    /\ pc' = "Failed"
    /\ raised' = e

Enter(p) ==
    /\ pc' = p
    /\ trail' = Append(trail, p)

AODInit ==
    /\ est \in {"DDV", "DOS"}
    /\ pc = "SelectTargets"
    /\ aotValMin \in AOTInputs
    /\ aotValMax \in AOTInputs
    /\ nSegs = 0
    /\ PredictAOTFor = << >>
    /\ numAOTValTests = -1
    /\ i = 0
    /\ j = 0
    /\ cAOT = 0
    /\ cDist = 0
    /\ minAOT = 0
    /\ minDist = 0
    /\ aotVals = << >>
    /\ ratAOT = << >>
    /\ searched = -1
    /\ evals = << >>
    /\ nEvals = << >>
    /\ interpCalls = << >>
    /\ raised = ""
    /\ trail = <<"SelectTargets">>

(***************************************************************************)
(* The steps of estimateImageToAODUsingDDV / estimateImageToAODUsingDOS.   *)
(* Every collaborator call can raise; the handler re-raises.               *)
(***************************************************************************)

\* findDDVTargets (DDV); dark-object subtraction and segmentation (DOS)
SelectTargets ==
    /\ pc = "SelectTargets"
    /\ \/ /\ \E n \in 1..MaxSegs : nSegs' = n
          /\ Enter("PopulateAttributes")
          /\ UNCHANGED raised
       \/ /\ Raise("CollaboratorFailure")
          /\ UNCHANGED <<nSegs, trail>>
    /\ UNCHANGED <<est, aotValMin, aotValMax, PredictAOTFor,
                   numAOTValTests, i, j, cAOT, cDist, minAOT, minDist,
                   aotVals, ratAOT, searched, evals, nEvals, interpCalls>>
    /\ UNCHANGED besidesAOD

\* populateRATWithStats with the DEM, the TOA (or DOS) and the radiance image
PopulateAttributes ==
    /\ pc = "PopulateAttributes"
    /\ \/ /\ Enter("ChooseGrid")
          /\ UNCHANGED raised
       \/ /\ Raise("CollaboratorFailure")
          /\ UNCHANGED trail
    /\ UNCHANGED <<est, aotValMin, aotValMax, nSegs, PredictAOTFor,
                   numAOTValTests, i, j, cAOT, cDist, minAOT, minDist,
                   aotVals, ratAOT, searched, evals, nEvals, interpCalls>>
    /\ UNCHANGED besidesAOD

\* the "Selected" column: DDV selects every clump but the background,
\* DOS the clumps whose radNDVI is above 0.2
SelectedColumns(e, n) ==
    IF e = "DDV"
    THEN {[s \in 0..(n - 1) |-> IF s = 0 THEN 0 ELSE 1]}
    ELSE [0..(n - 1) -> {0, 1}]

\* selectClumpsOnGrid flags, per grid cell, one of the selected clumps
GridColumns(sel, n) ==
    {f \in [0..(n - 1) -> {0, 1}] : \A s \in 0..(n - 1) : f[s] <= sel[s]}

\* write "Selected", spatialLocation, selectClumpsOnGrid
ChooseGrid ==
    /\ pc = "ChooseGrid"
    /\ \/ /\ \E sel \in SelectedColumns(est, nSegs) :
                \E f \in GridColumns(sel, nSegs) : PredictAOTFor' = f
          /\ Enter("SearchAOD")
          /\ UNCHANGED raised
       \/ /\ Raise("CollaboratorFailure")
          /\ UNCHANGED <<PredictAOTFor, trail>>
    /\ UNCHANGED <<est, aotValMin, aotValMax, nSegs,
                   numAOTValTests, i, j, cAOT, cDist, minAOT, minDist,
                   aotVals, ratAOT, searched, evals, nEvals, interpCalls>>
    /\ UNCHANGED besidesAOD

\* numAOTValTests and its check, then the locals of the search
CheckRange ==
    /\ pc = "SearchAOD"
    /\ numAOTValTests = -1
    /\ \E up \in BOOLEAN :
          LET n == NumAOTValTests(aotValMin, aotValMax, up) IN
          IF RangeRejected(n)
          THEN /\ Raise("SearchRangeTooNarrow")
               /\ UNCHANGED <<numAOTValTests, cAOT, cDist, minAOT, minDist,
                              aotVals, nEvals>>
          ELSE /\ numAOTValTests' = n
               /\ cAOT' = aotValMin
               /\ cDist' = 0
               /\ minAOT' = 0
               /\ minDist' = 0
               /\ aotVals' = Column(nSegs, 0)
               /\ nEvals' = Column(nSegs, 0)
               /\ UNCHANGED <<pc, raised>>
    /\ UNCHANGED <<est, aotValMin, aotValMax, nSegs, PredictAOTFor,
                   i, j, ratAOT, searched, evals, interpCalls, trail>>
    /\ UNCHANGED besidesAOD

\* one pass of the inner loop: a call of run6SToOptimiseAODValue
Evaluate6S ==
    /\ pc = "SearchAOD"
    /\ numAOTValTests # -1
    /\ i < nSegs
    /\ SearchSegment(PredictAOTFor[i])
    /\ j < numAOTValTests
    /\ LET c == Candidate(aotValMin, j) IN
       /\ cAOT' = c
       /\ \/ \E d \in Dists :
                LET best == UpdateBest(j, c, d, minAOT, minDist) IN
                /\ cDist' = d
                /\ minAOT' = best[1]
                /\ minDist' = best[2]
                /\ evals' = IF j = 0 THEN <<<<c, d>>>>
                                     ELSE Append(evals, <<c, d>>)
                /\ j' = j + 1
                /\ UNCHANGED <<pc, raised>>
          \/ /\ Raise("CollaboratorFailure")
             /\ evals' = IF j = 0 THEN << >> ELSE evals
             /\ UNCHANGED <<cDist, minAOT, minDist, j>>
       /\ searched' = i
       /\ nEvals' = [nEvals EXCEPT ![i] = @ + 1]
    /\ UNCHANGED <<est, aotValMin, aotValMax, nSegs, PredictAOTFor,
                   numAOTValTests, i, aotVals, ratAOT, interpCalls, trail>>
    /\ UNCHANGED besidesAOD

\* aotVals[i] = minAOT, after the last candidate of segment i
AssignAOT ==
    /\ pc = "SearchAOD"
    /\ numAOTValTests # -1
    /\ i < nSegs
    /\ SearchSegment(PredictAOTFor[i])
    /\ j >= numAOTValTests
    /\ aotVals' = [aotVals EXCEPT ![i] = minAOT]
    /\ i' = i + 1
    /\ j' = 0
    /\ UNCHANGED <<est, pc, aotValMin, aotValMax, nSegs,
                   PredictAOTFor, numAOTValTests, cAOT, cDist, minAOT,
                   minDist, ratAOT, searched, evals, nEvals, interpCalls,
                   raised, trail>>
    /\ UNCHANGED besidesAOD

\* else: aotVals[i] = 0
SkipSegment ==
    /\ pc = "SearchAOD"
    /\ numAOTValTests # -1
    /\ i < nSegs
    /\ ~SearchSegment(PredictAOTFor[i])
    /\ aotVals' = [aotVals EXCEPT ![i] = 0]
    /\ i' = i + 1
    /\ UNCHANGED <<est, pc, aotValMin, aotValMax, nSegs,
                   PredictAOTFor, numAOTValTests, j, cAOT, cDist, minAOT,
                   minDist, ratAOT, searched, evals, nEvals, interpCalls,
                   raised, trail>>
    /\ UNCHANGED besidesAOD

\* rat.writeColumn(ratDS, "AOT", aotVals), after the outer loop
WriteAOT ==
    /\ pc = "SearchAOD"
    /\ numAOTValTests # -1
    /\ i >= nSegs
    /\ ratAOT' = aotVals
    /\ Enter("Interpolate")
    /\ UNCHANGED <<est, aotValMin, aotValMax, nSegs, PredictAOTFor,
                   numAOTValTests, i, j, cAOT, cDist, minAOT, minDist,
                   aotVals, searched, evals, nEvals, interpCalls, raised>>
    /\ UNCHANGED besidesAOD

\* a call that passes the AOT array without filtering it
InterpArgsUnfilteredAOT(flags, vals, n) ==
    [Eastings  |-> Mask([s \in 0..(n - 1) |-> Easting(s)], flags, n),
     Northings |-> Mask([s \in 0..(n - 1) |-> Northing(s)], flags, n),
     aotVals   |-> [k \in 1..n |-> vals[k - 1]],
     smoothing |-> InterpSmoothing,
     floor     |-> InterpFloor]

\* the arguments of interpolateImageFromPointData
InterpArgs(flags, vals, n) ==
    [Eastings  |-> Mask([s \in 0..(n - 1) |-> Easting(s)], flags, n),
     Northings |-> Mask([s \in 0..(n - 1) |-> Northing(s)], flags, n),
     aotVals   |-> Mask(vals, flags, n),
     smoothing |-> InterpSmoothing,
     floor     |-> InterpFloor]

\* filter the three arrays, interpolate, clean up, return outputAOTImage
Interpolate ==
    /\ pc = "Interpolate"
    /\ LET args == InterpArgs(PredictAOTFor, aotVals, nSegs) IN
       /\ aotVals' = args.aotVals
       /\ interpCalls' = Append(interpCalls, args)
    /\ \/ /\ Enter("Done")
          /\ UNCHANGED raised
       \/ /\ Raise("CollaboratorFailure")
          /\ UNCHANGED trail
    /\ UNCHANGED <<est, aotValMin, aotValMax, nSegs, PredictAOTFor,
                   numAOTValTests, i, j, cAOT, cDist, minAOT, minDist,
                   ratAOT, searched, evals, nEvals>>
    /\ UNCHANGED besidesAOD

(***************************************************************************)
(* extractHeaderParameters: the header files.                              *)
(*                                                                         *)
(* headerParams is the dict the reader builds from the MTL file: a         *)
(* function from the keys of the file to their values, strings.  The       *)
(* headers given to the sensor are the regular headers of a scene (with    *)
(* the current key names, the legacy ones, or both) changed in at most     *)
(* MaxQuirks keys: a key removed, added, or given another value.           *)
(***************************************************************************)
Classes == {"Landsat5TM", "LandsatTM", "LandsatETM", "Landsat2MSS"}

\* the band names that appear in the key names of the class
Bands(c) ==
    CASE c = "LandsatETM" ->
           <<"1", "2", "3", "4", "5", "6_VCID_1", "6_VCID_2", "7", "8">>
      [] c = "Landsat2MSS" -> <<"4", "5", "6", "7">>
      [] OTHER -> <<"1", "2", "3", "4", "5", "6", "7">>

BandIdx(c) == 1..Len(Bands(c))

\* the band part of the legacy key names
LegacyBand(b) ==
    CASE b = "6_VCID_1" -> "61"
      [] b = "6_VCID_2" -> "62"
      [] OTHER -> b

QCalMinKey(b) == "QUANTIZE_CAL_MIN_BAND_" \o b
QCalMaxKey(b) == "QUANTIZE_CAL_MAX_BAND_" \o b
QCalMinLegacyKey(b) == "QCALMIN_BAND" \o LegacyBand(b)
QCalMaxLegacyKey(b) == "QCALMAX_BAND" \o LegacyBand(b)
RadMinKey(b) == "RADIANCE_MINIMUM_BAND_" \o b
RadMaxKey(b) == "RADIANCE_MAXIMUM_BAND_" \o b
RadMinLegacyKey(b) == "LMIN_BAND" \o LegacyBand(b)
RadMaxLegacyKey(b) == "LMAX_BAND" \o LegacyBand(b)
FileKey(b) == "FILE_NAME_BAND_" \o b

GeoCornerKeys ==
    <<"CORNER_UL_LAT_PRODUCT", "CORNER_UL_LON_PRODUCT",
      "CORNER_UR_LAT_PRODUCT", "CORNER_UR_LON_PRODUCT",
      "CORNER_LL_LAT_PRODUCT", "CORNER_LL_LON_PRODUCT",
      "CORNER_LR_LAT_PRODUCT", "CORNER_LR_LON_PRODUCT">>
GeoCornerFields ==
    <<"latTL", "lonTL", "latTR", "lonTR", "latBL", "lonBL", "latBR", "lonBR">>

ProjCornerKeys ==
    <<"CORNER_UL_PROJECTION_X_PRODUCT", "CORNER_UL_PROJECTION_Y_PRODUCT",
      "CORNER_UR_PROJECTION_X_PRODUCT", "CORNER_UR_PROJECTION_Y_PRODUCT",
      "CORNER_LL_PROJECTION_X_PRODUCT", "CORNER_LL_PROJECTION_Y_PRODUCT",
      "CORNER_LR_PROJECTION_X_PRODUCT", "CORNER_LR_PROJECTION_Y_PRODUCT">>
ProjCornerFields ==
    <<"xTL", "yTL", "xTR", "yTR", "xBL", "yBL", "xBR", "yBR">>

OptionalKeys ==
    <<"CLOUD_COVER", "CLOUD_COVER_LAND", "EARTH_SUN_DISTANCE",
      "GRID_CELL_SIZE_REFLECTIVE", "GRID_CELL_SIZE_THERMAL",
      "GRID_CELL_SIZE_PANCHROMATIC">>
OptionalFields ==
    <<"cloudCover", "cloudCoverLand", "earthSunDistance",
      "gridCellSizeRefl", "gridCellSizeTherm", "gridCellSizePan">>

\* the range of a sequence
Range(s) == {s[n] : n \in 1..Len(s)}

\* the entries (key, value) that hold value base + n under the key of the
\* n-th band
ByBand(c, Key(_), base) ==
    [n \in BandIdx(c) |-> <<Key(Bands(c)[n]), ToString(base + n)>>]

\* the entries that hold the values vs under the keys ks
Zip(ks, vs) == [n \in 1..Len(ks) |-> <<ks[n], vs[n]>>]

\* the pairs (current key, legacy key) of the fields with two key names
AlternativeKeys(c) ==
    {<<"WRS_ROW", "STARTING_ROW">>,
     <<"DATE_ACQUIRED", "ACQUISITION_DATE">>,
     <<"SCENE_CENTER_TIME", "SCENE_CENTER_SCAN_TIME">>,
     <<"UTM_ZONE", "ZONE_NUMBER">>,
     <<"FILE_NAME_BAND_QUALITY", "FILE_NAME_QUALITY_L1_PIXEL">>,
     <<"FILE_DATE", "DATE_PRODUCT_GENERATED">>}
    \cup {<<QCalMinKey(Bands(c)[n]), QCalMinLegacyKey(Bands(c)[n])>> :
             n \in BandIdx(c)}
    \cup {<<QCalMaxKey(Bands(c)[n]), QCalMaxLegacyKey(Bands(c)[n])>> :
             n \in BandIdx(c)}
    \cup {<<RadMinKey(Bands(c)[n]), RadMinLegacyKey(Bands(c)[n])>> :
             n \in BandIdx(c)}
    \cup {<<RadMaxKey(Bands(c)[n]), RadMaxLegacyKey(Bands(c)[n])>> :
             n \in BandIdx(c)}
    \cup (IF c = "LandsatETM"
          THEN {<<"FILE_NAME_BAND_6_VCID_1", "BAND61_FILE_NAME">>,
                <<"FILE_NAME_BAND_6_VCID_2", "BAND62_FILE_NAME">>}
          ELSE {})

\* the spacecraft and the sensor of the scenes of the class
SceneSpacecraft(c) ==
    CASE c = "LandsatETM" -> "LANDSAT_7"
      [] c = "Landsat2MSS" -> "LANDSAT_2"
      [] OTHER -> "LANDSAT_5"

SceneSensor(c) ==
    CASE c = "LandsatETM" -> "ETM"
      [] c = "Landsat2MSS" -> "MSS"
      [] OTHER -> "TM"

\* the header of a scene of class c in projection proj, every field under
\* each of its key names, as the list of its entries (key, value); a field
\* holds another value under its legacy name
SceneEntries(c, proj) ==
    <<<<"SPACECRAFT_ID", SceneSpacecraft(c)>>,
      <<"SENSOR_ID", SceneSensor(c)>>,
      <<"COLLECTION_NUMBER", "01">>,
      <<"WRS_ROW", "24">>, <<"STARTING_ROW", "25">>,
      <<"WRS_PATH", "204">>,
      <<"DATE_ACQUIRED", "2011-07-01">>,
      <<"ACQUISITION_DATE", "1999-12-31">>,
      <<"SCENE_CENTER_TIME", "10:20:30.5Z">>,
      <<"SCENE_CENTER_SCAN_TIME", "23:59:58">>,
      <<"SUN_ELEVATION", "60">>, <<"SUN_AZIMUTH", "150">>,
      <<"MAP_PROJECTION", proj>>,
      <<"DATUM", "WGS84">>, <<"ELLIPSOID", "WGS84">>,
      <<"UTM_ZONE", "30">>, <<"ZONE_NUMBER", "31">>,
      <<"BAND61_FILE_NAME", "B61.TIF">>,
      <<"BAND62_FILE_NAME", "B62.TIF">>,
      <<"FILE_NAME_BAND_QUALITY", "BQA.TIF">>,
      <<"FILE_NAME_QUALITY_L1_PIXEL", "QA_PIXEL.TIF">>,
      <<"FILE_DATE", "2020-01-02T03:04:05Z">>,
      <<"DATE_PRODUCT_GENERATED", "2012-01-02T03:04:05">>>>
    \o Zip(GeoCornerKeys, <<"52", "3", "52", "5", "50", "3", "50", "5">>)
    \o Zip(ProjCornerKeys,
           <<"100", "400", "300", "400", "100", "200", "300", "200">>)
    \o [n \in BandIdx(c) |->
           <<FileKey(Bands(c)[n]), "B" \o Bands(c)[n] \o ".TIF">>]
    \o ByBand(c, QCalMinKey, 0) \o ByBand(c, QCalMaxKey, 20)
    \o ByBand(c, QCalMinLegacyKey, 40) \o ByBand(c, QCalMaxLegacyKey, 60)
    \o ByBand(c, RadMinKey, 100) \o ByBand(c, RadMaxKey, 120)
    \o ByBand(c, RadMinLegacyKey, 140) \o ByBand(c, RadMaxLegacyKey, 160)
    \o Zip(OptionalKeys, <<"10", "12", "1", "30", "60", "15">>)

\* the dict of a list of entries
Dict(es) ==
    [k \in {es[n][1] : n \in 1..Len(es)} |->
        es[CHOOSE n \in 1..Len(es) : es[n][1] = k][2]]

FullHeader(c, proj) == Dict(SceneEntries(c, proj))

\* a dict without the keys ks
Without(h, ks) == [k \in (DOMAIN h) \ ks |-> h[k]]

Eras == {"current", "legacy", "both"}

\* the regular header of a scene: with the current key names, with the
\* legacy key names, or with both
RegularHeader(c, era, proj) ==
    LET full == FullHeader(c, proj) IN
    CASE era = "current" ->
           Without(full, {p[2] : p \in AlternativeKeys(c)})
      [] era = "legacy" ->
           Without(full, {p[1] : p \in AlternativeKeys(c)})
      [] OTHER -> full

\* the regular scenes, as pairs (era, projection): the UTM scenes of every
\* era and the polar stereographic scenes of the current one (the polar
\* scenes of the other eras are a UTM scene with another MAP_PROJECTION)
Scenes == (Eras \X {"UTM"}) \cup {<<"current", "PS">>}

\* the value of an absent key, in a change of a header
NoKey == "<absent>"

\* the values a change can give to key k
ValuesOf(k) ==
    CASE k = "SPACECRAFT_ID" ->
           {"LANDSAT_2", "LANDSAT_4", "LANDSAT4", "LANDSAT_5", "LANDSAT5",
            "landsat_5", "LANDSAT_7", "LANDSAT7", "landsat_2", "LANDSAT_8"}
      [] k = "SENSOR_ID" -> {"MSS", "TM", "tm", "ETM", "ETM+", "mss", "OLI"}
      [] k = "COLLECTION_NUMBER" -> {"01", "02", "03"}
      [] k = "MAP_PROJECTION" -> {"UTM", "PS", "AEA"}
      [] k = "DATUM" -> {"WGS84", "NAD27"}
      [] k = "ELLIPSOID" -> {"WGS84", "GRS80"}
      [] k \in Range(ProjCornerKeys) -> {"100", "121"}
      [] OTHER -> {}

\* the departures of a call from a regular one, of which each changes one
\* key of header h: the n-th key of the scene's headers is removed, added,
\* or given another value v; departure 0 gives the call a user image
Quirks(c, h) ==
    LET es == SceneEntries(c, "UTM") IN
    (IF c = "Landsat2MSS" THEN {}
     ELSE {<<0, "userSpInputImage", "user.kea">>})
    \cup
    UNION {{<<n, es[n][1], v>> :
              v \in IF es[n][1] \in DOMAIN h
                    THEN ({NoKey} \cup ValuesOf(es[n][1])) \ {h[es[n][1]]}
                    ELSE {es[n][2]} \cup ValuesOf(es[n][1])} :
           n \in 1..Len(es)}

\* the lists of at most m departures in distinct respects, in the order of
\* the keys
RECURSIVE QuirkLists(_, _, _)
QuirkLists(c, h, m) ==
    IF m = 0 THEN {<< >>}
    ELSE LET less == QuirkLists(c, h, m - 1)
             longest == {l \in less : Len(l) = m - 1}
         IN  less \cup
             {Append(lq[1], lq[2]) :
                lq \in {x \in longest \X Quirks(c, h) :
                          Len(x[1]) = 0 \/ x[1][Len(x[1])][1] < x[2][1]}}

\* header h with key q[2] removed, or set to q[3]
Changed(h, q) ==
    IF q[1] = 0 THEN h
    ELSE IF q[3] = NoKey THEN Without(h, {q[2]})
    ELSE (q[2] :> q[3]) @@ h

\* header h after the first n changes of the list qs
RECURSIVE ChangedBy(_, _, _)
ChangedBy(h, qs, n) ==
    IF n = 0 THEN h ELSE Changed(ChangedBy(h, qs, n - 1), qs[n])

(***************************************************************************)
(* extractHeaderParameters: the values of the header and the sensor        *)
(* object.  Every number of a header of the model is a numeral; a          *)
(* projected coordinate is counted in half units, so that the halving of   *)
(* the centre formula is exact, as it is for the floats of the program.    *)
(***************************************************************************)
NoErr == [type |-> "", arg |-> ""]
KeyError(k) == [type |-> "KeyError", arg |-> k]
ValueError(s) == [type |-> "ValueError", arg |-> s]
ARCSIException(m) == [type |-> "ARCSIException", arg |-> m]

UserImageMsg ==
    "Landsat sensor cannot accept a user specified image file - only the images in the header file will be used."
SensorMsg == "Do no recognise the spacecraft and sensor or combination."
CollectionMsg == "Can only process collection 1 and 2 data"
DatumMsg == "Datum not recogised. Expected 'WGS84'"
EllipsoidMsg == "Ellipsoid not recogised. Expected 'WGS84'"
ProjectionMsg ==
    "Expecting Landsat to be projected in UTM or PolarStereographic (PS) with datum=WGS84 and ellipsoid=WGS84."
ProjectionMsgMSS ==
    "Expecting Landsat to be projected in UTM with datum=WGS84 and ellipsoid=WGS84."
SquareMsg == "Image is not square in projected coordinates."

Numerals == 0..400

\* int(s) and float(s) of a numeral
IntOf ==
    [s \in {ToString(n) : n \in Numerals} |->
        CHOOSE n \in Numerals : ToString(n) = s]

\* the conversions of a header value: int(s) or float(s) of a numeral, the
\* float of a projected coordinate (in half units), 90 - float(s), the
\* path os.path.join(filesDIR, s), and the string as it is
Convertible(kind, s) == kind \in {"str", "path"} \/ s \in DOMAIN IntOf

\* s.upper()
Upper(s) ==
    CASE s = "landsat_5" -> "LANDSAT_5"
      [] s = "landsat_2" -> "LANDSAT_2"
      [] s = "tm" -> "TM"
      [] s = "mss" -> "MSS"
      [] OTHER -> s

\* the fields of s.split('-')
DateOf ==
    ("2011-07-01" :> <<2011, 7, 1>>) @@ ("1999-12-31" :> <<1999, 12, 31>>)

\* the fields of s.split(':'), the seconds cut at the '.'
TimeOf ==
    ("10:20:30.5Z" :> <<10, 20, 30>>) @@ ("23:59:58" :> <<23, 59, 58>>)

\* strptime(s.strip().replace("Z", ""), "%Y-%m-%dT%H:%M:%S")
FileDateOf ==
    ("2020-01-02T03:04:05Z" :> <<2020, 1, 2, 3, 4, 5>>) @@
    ("2012-01-02T03:04:05" :> <<2012, 1, 2, 3, 4, 5>>)

NoTime == <<0, 0, 0, 0, 0, 0>>

\* os.path.join(filesDIR, name) and os.path.split(inputHeader)[1]
FilesDIR == "scene"
HeaderFileName == "scene_MTL.txt"
JoinPath(d, f) == d \o "/" \o f

Convert(kind, s) ==
    CASE kind = "int" -> IntOf[s]
      [] kind = "halves" -> 2 * IntOf[s]
      [] kind = "zenith" -> 90 - IntOf[s]
      [] kind = "path" -> JoinPath(FilesDIR, s)
      [] OTHER -> s

\* the band part of the field names of the object
FieldBand(b) ==
    CASE b = "6_VCID_1" -> "6a"
      [] b = "6_VCID_2" -> "6b"
      [] OTHER -> b

CalMinField(b) == "b" \o FieldBand(b) \o "CalMin"
CalMaxField(b) == "b" \o FieldBand(b) \o "CalMax"
MinRadField(b) == "b" \o FieldBand(b) \o "MinRad"
MaxRadField(b) == "b" \o FieldBand(b) \o "MaxRad"
FileField(b) == IF b = "8" THEN "bandPanFile" ELSE "band" \o FieldBand(b) \o "File"

\* the bands whose file name the class takes from getBandFilenames
FileBands(c) ==
    IF c = "LandsatETM" THEN <<"1", "2", "3", "4", "5", "7", "8">>
    ELSE Bands(c)

\* the fields ARCSIAbstractSensor.__init__ sets
AbstractSensorFields ==
    [f \in Range(GeoCornerFields) \cup Range(ProjCornerFields)
           \cup {"solarZenith", "solarAzimuth", "xCentre", "yCentre",
                 "latCentre", "lonCentre"} |-> 0] @@
    ("sensor" :> "NA") @@ ("inWKT" :> "") @@
    ("acquisitionTime" :> NoTime) @@ ("fileDateObj" :> NoTime) @@
    ("headerFileName" :> "") @@ ("fmaskMTLInfo" :> "") @@
    ("hasImageDataMask" :> FALSE)

\* the bands of the calibration fields of the class
BandFields(c) ==
    UNION {{CalMinField(Bands(c)[n]), CalMaxField(Bands(c)[n]),
            MinRadField(Bands(c)[n]), MaxRadField(Bands(c)[n])} :
           n \in BandIdx(c)}

\* the object after __init__ of class c
NewSensor(c) ==
    ("sensor" :> CASE c = "Landsat5TM" -> "LS5TM"
                   [] c = "LandsatTM" -> "LS_TM"
                   [] c = "LandsatETM" -> "LS_ETM"
                   [] OTHER -> "LS2MSS") @@
    [f \in {FileField(Bands(c)[n]) : n \in BandIdx(c)} |-> ""] @@
    [f \in {"row", "path"} \cup BandFields(c) |-> 0] @@
    (IF c = "Landsat2MSS" THEN << >>
     ELSE [f \in {"sensorID", "spacecraftID"} |-> ""] @@
          [f \in {"cloudCover", "cloudCoverLand", "earthSunDistance",
                  "gridCellSizeRefl", "gridCellSizeTherm"} |-> 0]) @@
    (IF c \in {"LandsatTM", "LandsatETM"}
     THEN ("collection_num" :> 0) @@ ("bandQAFile" :> "")
     ELSE << >>) @@
    (IF c = "LandsatETM" THEN ("gridCellSizePan" :> 0) ELSE << >>) @@
    AbstractSensorFields

(***************************************************************************)
(* The statements of extractHeaderParameters.  A statement takes the       *)
(* state c of the call -- the object, the exception raised (NoErr if       *)
(* none), the keys looked up, and the locals -- to the state after it; a   *)
(* statement that follows a raise does nothing.                            *)
(***************************************************************************)
Has(k) == k \in DOMAIN headerParams

Fail(c, e) == IF c.err # NoErr THEN c ELSE [c EXCEPT !.err = e]

Look(c, ks) == IF c.err # NoErr THEN c ELSE [c EXCEPT !.reads = @ \cup ks]

\* self.f = v
Assign(c, f, v) ==
    IF c.err # NoErr THEN c ELSE [c EXCEPT !.self = (f :> v) @@ @]

\* the index of the first key of ks the header has (0 if none)
FirstPresent(ks) ==
    IF \E n \in 1..Len(ks) : Has(ks[n])
    THEN CHOOSE n \in 1..Len(ks) :
            Has(ks[n]) /\ \A m \in 1..(n - 1) : ~Has(ks[m])
    ELSE 0

\* the keys looked up by: try ks[1] except KeyError: ks[2] ...
Tried(ks) ==
    {ks[n] : n \in {m \in 1..Len(ks) :
                      FirstPresent(ks) = 0 \/ m <= FirstPresent(ks)}}

\* headerParams[ks[1]], or on a KeyError headerParams[ks[2]]
Lookup(c, ks) ==
    IF FirstPresent(ks) = 0
    THEN Fail(Look(c, Tried(ks)), KeyError(ks[Len(ks)]))
    ELSE Look(c, Tried(ks))

Value(ks) == headerParams[ks[FirstPresent(ks)]]

\* self.f = conv(headerParams[ks[1]]), or on a KeyError of ks[2]
ReadInto(c, f, ks, kind) ==
    LET d == Lookup(c, ks) IN
    IF d.err # NoErr THEN d
    ELSE IF ~Convertible(kind, Value(ks))
         THEN Fail(d, ValueError(Value(ks)))
         ELSE Assign(d, f, Convert(kind, Value(ks)))

\* self.fs[m] = conv(headerParams[ks[m]]) for m = n..Len(fs), in order
RECURSIVE ReadAllFrom(_, _, _, _, _)
ReadAllFrom(c, fs, ks, kind, n) ==
    IF c.err # NoErr \/ n > Len(fs) THEN c
    ELSE ReadAllFrom(ReadInto(c, fs[n], <<ks[n]>>, kind), fs, ks, kind, n + 1)

ReadAll(c, fs, ks, kind) == ReadAllFrom(c, fs, ks, kind, 1)

\* a helper that returns the fields read, or raises and returns nothing
AllOrNothing(c, d) == IF d.err # NoErr THEN [d EXCEPT !.self = c.self] ELSE d

(***************************************************************************)
(* extractHeaderParameters: the sensor and the collection.                 *)
(***************************************************************************)
\* the if / elif chain that recognises the scene, and whether the
\* identifiers are compared in upper case
SensorTests(c) ==
    CASE c = "Landsat5TM" ->
           <<[scs |-> {"LANDSAT_5", "LANDSAT5"}, sns |-> {"TM"},
              sensor |-> "LS5TM"]>>
      [] c = "LandsatTM" ->
           <<[scs |-> {"LANDSAT_5", "LANDSAT5"}, sns |-> {"TM"},
              sensor |-> "LS5TM"],
             [scs |-> {"LANDSAT_4", "LANDSAT4"}, sns |-> {"TM"},
              sensor |-> "LS4TM"]>>
      [] c = "LandsatETM" ->
           <<[scs |-> {"LANDSAT_7", "LANDSAT7"}, sns |-> {"ETM", "ETM+"},
              sensor |-> "LS7"]>>
      [] OTHER ->
           <<[scs |-> {"LANDSAT_2"}, sns |-> {"MSS"}, sensor |-> "LS2MSS"]>>

\* a comparison in upper case in every class
UpperAlways(c, s) == Upper(s)

Normalised(c, s) == IF c = "Landsat2MSS" THEN s ELSE Upper(s)

\* (SPACECRAFT_ID is one of scs) and (SENSOR_ID is one of sns): SENSOR_ID
\* is looked up only when the spacecraft matches
TestPair(c, cl, scs, sns) ==
    IF c.err # NoErr THEN c
    ELSE IF ~Has("SPACECRAFT_ID") THEN Lookup(c, <<"SPACECRAFT_ID">>)
    ELSE IF Normalised(cl, headerParams["SPACECRAFT_ID"]) \notin scs
    THEN [Look(c, {"SPACECRAFT_ID"}) EXCEPT !.test = FALSE]
    ELSE IF ~Has("SENSOR_ID")
    THEN Lookup(Look(c, {"SPACECRAFT_ID"}), <<"SENSOR_ID">>)
    ELSE [Look(c, {"SPACECRAFT_ID", "SENSOR_ID"}) EXCEPT
             !.test = Normalised(cl, headerParams["SENSOR_ID"]) \in sns]

RECURSIVE RecogniseFrom(_, _, _, _)
RecogniseFrom(c, cl, tests, n) ==
    IF n > Len(tests) THEN Fail(c, ARCSIException(SensorMsg))
    ELSE LET t == TestPair(c, cl, tests[n].scs, tests[n].sns) IN
         IF t.err # NoErr THEN t
         ELSE IF t.test THEN Assign(t, "sensor", tests[n].sensor)
         ELSE RecogniseFrom(t, cl, tests, n + 1)

Recognise(c, cl) == RecogniseFrom(c, cl, SensorTests(cl), 1)

\* self.sensorID and self.spacecraftID
ReadIdentifiers(c, cl) ==
    IF cl = "Landsat2MSS" THEN c
    ELSE ReadInto(ReadInto(c, "sensorID", <<"SENSOR_ID">>, "str"),
                  "spacecraftID", <<"SPACECRAFT_ID">>, "str")

\* a reading that raises for no collection number
ReadCollectionUnchecked(c, cl) ==
    IF cl \notin {"LandsatTM", "LandsatETM"} THEN c
    ELSE LET d == Lookup(c, <<"COLLECTION_NUMBER">>) IN
         IF d.err # NoErr THEN d
         ELSE IF headerParams["COLLECTION_NUMBER"] = "01"
         THEN Assign(d, "collection_num", 1)
         ELSE IF headerParams["COLLECTION_NUMBER"] = "02"
         THEN Assign(d, "collection_num", 2)
         ELSE d

\* self.collection_num
ReadCollection(c, cl) ==
    IF cl \notin {"LandsatTM", "LandsatETM"} THEN c
    ELSE LET d == Lookup(c, <<"COLLECTION_NUMBER">>) IN
         IF d.err # NoErr THEN d
         ELSE IF headerParams["COLLECTION_NUMBER"] = "01"
         THEN Assign(d, "collection_num", 1)
         ELSE IF headerParams["COLLECTION_NUMBER"] = "02"
         THEN Assign(d, "collection_num", 2)
         ELSE Fail(d, ARCSIException(CollectionMsg))

(***************************************************************************)
(* extractHeaderParameters: row and path, acquisition, corners.            *)
(***************************************************************************)
\* the key names the class tries for a field: the Landsat2MSS class knows
\* the current name only
Names(cl, current, legacy) ==
    IF cl = "Landsat2MSS" THEN <<current>> ELSE <<current, legacy>>

ReadRowPath(c, cl) ==
    ReadInto(ReadInto(c, "row", Names(cl, "WRS_ROW", "STARTING_ROW"), "int"),
             "path", <<"WRS_PATH">>, "int")

ReadAcquisition(c, cl) ==
    LET dk == Names(cl, "DATE_ACQUIRED", "ACQUISITION_DATE")
        tk == Names(cl, "SCENE_CENTER_TIME", "SCENE_CENTER_SCAN_TIME")
        d == Lookup(Lookup(c, dk), tk)
        a == IF d.err # NoErr THEN d
             ELSE IF Value(dk) \notin DOMAIN DateOf
             THEN Fail(d, ValueError(Value(dk)))
             ELSE IF Value(tk) \notin DOMAIN TimeOf
             THEN Fail(d, ValueError(Value(tk)))
             ELSE Assign(d, "acquisitionTime",
                         DateOf[Value(dk)] \o TimeOf[Value(tk)])
    IN  ReadInto(ReadInto(a, "solarZenith", <<"SUN_ELEVATION">>, "zenith"),
                 "solarAzimuth", <<"SUN_AZIMUTH">>, "int")

\* ARCSILandsatMetaUtils.getGeographicCorners and the eight assignments
GetGeographicCorners(c) ==
    AllOrNothing(c, ReadAll(c, GeoCornerFields, GeoCornerKeys, "int"))

\* ARCSILandsatMetaUtils.getProjectedCorners and the eight assignments
GetProjectedCorners(c) ==
    AllOrNothing(c, ReadAll(c, ProjCornerFields, ProjCornerKeys, "halves"))

ReadCorners(c, cl) ==
    IF cl = "Landsat2MSS"
    THEN ReadAll(ReadAll(c, GeoCornerFields, GeoCornerKeys, "int"),
                 ProjCornerFields, ProjCornerKeys, "halves")
    ELSE GetProjectedCorners(GetGeographicCorners(c))

(***************************************************************************)
(* extractHeaderParameters: the projection.                                *)
(***************************************************************************)
\* headerParams[k] == v
Test(c, k, v) ==
    LET d == Lookup(c, <<k>>) IN
    IF d.err # NoErr THEN d ELSE [d EXCEPT !.test = (headerParams[k] = v)]

\* (headerParams[k1] == v1) and (headerParams[k2] == v2) and ...
RECURSIVE TestAllFrom(_, _, _)
TestAllFrom(c, kvs, n) ==
    IF c.err # NoErr THEN c
    ELSE IF n > Len(kvs) THEN [c EXCEPT !.test = TRUE]
    ELSE LET t == Test(c, kvs[n][1], kvs[n][2]) IN
         IF t.err # NoErr \/ ~t.test THEN t ELSE TestAllFrom(t, kvs, n + 1)

\* a lookup that checks nothing
TolerateAny(c, k, msg) == Look(c, {k})

\* try: v = headerParams[k]; if v != "WGS84": raise ... except KeyError: pass
TolerateWGS84(c, k, msg) ==
    IF Has(k) /\ headerParams[k] # "WGS84"
    THEN Fail(Look(c, {k}), ARCSIException(msg))
    ELSE Look(c, {k})

\* utmZone, utmCode and inProj.ImportFromEPSG(self.epsgCodes[utmCode])
ImportUTM(c, ks) ==
    LET d == Lookup(c, ks) IN
    IF d.err # NoErr THEN d
    ELSE IF ~Convertible("int", Value(ks))
    THEN Fail(d, ValueError(Value(ks)))
    ELSE [d EXCEPT
             !.inProj = "WGS84UTM" \o ToString(Convert("int", Value(ks)))
                                   \o "N"]

\* self.inWKT is set from the header unless the caller has set it
KeepWKT(c) ==
    IF c.err # NoErr THEN c
    ELSE IF c.self["inWKT"] = "" THEN Assign(c, "inWKT", c.inProj)
    ELSE c

ReadProjection(c, cl) ==
    IF cl = "Landsat2MSS"
    THEN LET t == TestAllFrom(c, <<<<"MAP_PROJECTION", "UTM">>,
                                   <<"DATUM", "WGS84">>,
                                   <<"ELLIPSOID", "WGS84">>>>, 1) IN
         IF t.err # NoErr THEN t
         ELSE IF t.test THEN ImportUTM(t, <<"UTM_ZONE">>)
         ELSE Fail(t, ARCSIException(ProjectionMsgMSS))
    ELSE LET u == Test(c, "MAP_PROJECTION", "UTM")
             p == TestAllFrom(u, <<<<"MAP_PROJECTION", "PS">>,
                                   <<"DATUM", "WGS84">>,
                                   <<"ELLIPSOID", "WGS84">>>>, 1)
         IN  KeepWKT(
             IF u.err # NoErr THEN u
             ELSE IF u.test
             THEN ImportUTM(TolerateWGS84(TolerateWGS84(u, "DATUM", DatumMsg),
                                          "ELLIPSOID", EllipsoidMsg),
                            <<"UTM_ZONE", "ZONE_NUMBER">>)
             ELSE IF p.err # NoErr THEN p
             ELSE IF p.test THEN [p EXCEPT !.inProj = "PS WGS84"]
             ELSE Fail(p, ARCSIException(ProjectionMsg)))

(***************************************************************************)
(* extractHeaderParameters: the rectangularity check and the centre.       *)
(***************************************************************************)
\* a check that leaves out the lower edge
IsSquareButLowerEdge(s) ==
    /\ s["xTL"] = s["xBL"]
    /\ s["yTL"] = s["yTR"]
    /\ s["xTR"] = s["xBR"]

IsSquare(s) ==
    /\ s["xTL"] = s["xBL"]
    /\ s["yTL"] = s["yTR"]
    /\ s["xTR"] = s["xBR"]
    /\ s["yBL"] = s["yBR"]

\* x + ((y - x) / 2), in half units
Midway(x, y) == x + ((y - x) \div 2)

\* the centre reprojected to WGS84 latitude / longitude by the projection
\* library: some function of the projection and the point
ReprojectLat(proj, x, y) == (y \div 8) + Len(proj)
ReprojectLon(proj, x, y) == (x \div 8) + Len(proj)

ResolveCentre(c) ==
    IF c.err # NoErr THEN c
    ELSE IF ~IsSquare(c.self) THEN Fail(c, ARCSIException(SquareMsg))
    ELSE LET x == Midway(c.self["xTL"], c.self["xTR"])
             y == Midway(c.self["yBR"], c.self["yTL"])
         IN  Assign(Assign(Assign(Assign(c, "xCentre", x), "yCentre", y),
                           "latCentre", ReprojectLat(c.inProj, x, y)),
                    "lonCentre", ReprojectLon(c.inProj, x, y))

(***************************************************************************)
(* extractHeaderParameters: the band files.                                *)
(***************************************************************************)
FileFields(bs) == [n \in 1..Len(bs) |-> FileField(bs[n])]
FileKeys(bs) == [n \in 1..Len(bs) |-> FileKey(bs[n])]

\* ARCSILandsatMetaUtils.getBandFilenames and the assignments of the files
GetBandFilenames(c, bs) ==
    AllOrNothing(c, ReadAll(c, FileFields(bs), FileKeys(bs), "path"))

\* self.bandQAFile
ReadQAFile(c) ==
    IF Has("FILE_NAME_BAND_QUALITY")
    THEN ReadInto(c, "bandQAFile", <<"FILE_NAME_BAND_QUALITY">>, "path")
    ELSE IF Has("FILE_NAME_QUALITY_L1_PIXEL")
    THEN ReadInto(Look(c, {"FILE_NAME_BAND_QUALITY"}), "bandQAFile",
                  <<"FILE_NAME_QUALITY_L1_PIXEL">>, "path")
    ELSE Assign(Look(c, {"FILE_NAME_BAND_QUALITY",
                         "FILE_NAME_QUALITY_L1_PIXEL"}), "bandQAFile", "")

ReadBandFiles(c, cl) ==
    CASE cl = "Landsat2MSS" ->
           ReadAll(c, FileFields(Bands(cl)), FileKeys(Bands(cl)), "path")
      [] cl = "Landsat5TM" -> GetBandFilenames(c, FileBands(cl))
      [] cl = "LandsatTM" -> ReadQAFile(GetBandFilenames(c, FileBands(cl)))
      [] OTHER ->
           ReadInto(ReadInto(ReadQAFile(GetBandFilenames(c, FileBands(cl))),
                             "band6aFile",
                             <<"FILE_NAME_BAND_6_VCID_1", "BAND61_FILE_NAME">>,
                             "path"),
                    "band6bFile",
                    <<"FILE_NAME_BAND_6_VCID_2", "BAND62_FILE_NAME">>, "path")

(***************************************************************************)
(* extractHeaderParameters: the calibration ranges.  The header values     *)
(* of the model are numerals, which str2Float converts; the default it     *)
(* returns for a text that is no number is not modelled.                   *)
(***************************************************************************)
\* the key names of a family of calibration values: the quantized range
\* ("QCal") or the radiance range ("Rad")
MinKey(fam, b) == IF fam = "QCal" THEN QCalMinKey(b) ELSE RadMinKey(b)
MaxKey(fam, b) == IF fam = "QCal" THEN QCalMaxKey(b) ELSE RadMaxKey(b)
MinLegacyKey(fam, b) ==
    IF fam = "QCal" THEN QCalMinLegacyKey(b) ELSE RadMinLegacyKey(b)
MaxLegacyKey(fam, b) ==
    IF fam = "QCal" THEN QCalMaxLegacyKey(b) ELSE RadMaxLegacyKey(b)
MinField(fam, b) == IF fam = "QCal" THEN CalMinField(b) ELSE MinRadField(b)
MaxField(fam, b) == IF fam = "QCal" THEN CalMaxField(b) ELSE MaxRadField(b)

Str2Float(s) == IntOf[s]

\* metaList.append(v) of the TM classes, metaList[band_num] = v of the ETM
\* class: the lists are sequences, the dicts functions of the band name
Store(cl, list, b, v) ==
    IF cl = "LandsatETM" THEN (b :> v) @@ list ELSE Append(list, v)

\* the value of band b, the n-th band, in a list or dict
Stored(cl, list, b, n) == IF cl = "LandsatETM" THEN list[b] ELSE list[n]

\* metaMinList gets str2Float(headerParams[k])
StoreMin(c, cl, b, k) ==
    LET d == Lookup(c, <<k>>) IN
    IF d.err # NoErr THEN d
    ELSE [d EXCEPT !.minList = Store(cl, @, b, Str2Float(headerParams[k]))]

StoreMax(c, cl, b, k) ==
    LET d == Lookup(c, <<k>>) IN
    IF d.err # NoErr THEN d
    ELSE [d EXCEPT !.maxList = Store(cl, @, b, Str2Float(headerParams[k]))]

\* one pass of the loop: try: the minimum and the maximum under the
\* current names; except KeyError: both under the legacy names
StoreBand(c, cl, fam, b) ==
    LET try == StoreMax(StoreMin(c, cl, b, MinKey(fam, b)),
                        cl, b, MaxKey(fam, b))
    IN  IF c.err # NoErr THEN c
        ELSE IF try.err = NoErr THEN try
        ELSE StoreMax(StoreMin([try EXCEPT !.err = NoErr],
                               cl, b, MinLegacyKey(fam, b)),
                      cl, b, MaxLegacyKey(fam, b))

\* the passes of the loop from the n-th band on
RECURSIVE StoreBandsFrom(_, _, _, _)
StoreBandsFrom(c, cl, fam, n) ==
    IF c.err # NoErr \/ n > Len(Bands(cl)) THEN c
    ELSE StoreBandsFrom(StoreBand(c, cl, fam, Bands(cl)[n]), cl, fam, n + 1)

\* the loop, from empty lists
StoreBands(c, cl, fam) ==
    IF c.err # NoErr THEN c
    ELSE StoreBandsFrom([c EXCEPT !.minList = << >>, !.maxList = << >>],
                        cl, fam, 1)

\* self.bNCalMin = metaQCalMinList[N - 1]; self.bNCalMax = ... (and MinRad),
\* from the n-th band on
RECURSIVE AssignBandsFrom(_, _, _, _)
AssignBandsFrom(c, cl, fam, n) ==
    IF c.err # NoErr \/ n > Len(Bands(cl)) THEN c
    ELSE LET b == Bands(cl)[n] IN
         AssignBandsFrom(
             Assign(Assign(c, MinField(fam, b), Stored(cl, c.minList, b, n)),
                    MaxField(fam, b), Stored(cl, c.maxList, b, n)),
             cl, fam, n + 1)

AssignBands(c, cl, fam) == AssignBandsFrom(c, cl, fam, 1)

ReadRanges(c, cl, fam) == AssignBands(StoreBands(c, cl, fam), cl, fam)

\* the fields and the keys of the Landsat2MSS class, in the order it reads
MSSFields(fam) ==
    [n \in 1..8 |-> IF n % 2 = 1 THEN MinField(fam, Bands("Landsat2MSS")[(n + 1) \div 2])
                    ELSE MaxField(fam, Bands("Landsat2MSS")[n \div 2])]
MSSKeys(fam) ==
    [n \in 1..8 |-> IF n % 2 = 1 THEN MinKey(fam, Bands("Landsat2MSS")[(n + 1) \div 2])
                    ELSE MaxKey(fam, Bands("Landsat2MSS")[n \div 2])]

ReadCalibration(c, cl) ==
    IF cl = "Landsat2MSS"
    THEN ReadAll(ReadAll(c, MSSFields("QCal"), MSSKeys("QCal"), "int"),
                 MSSFields("Rad"), MSSKeys("Rad"), "int")
    ELSE ReadRanges(ReadRanges(c, cl, "QCal"), cl, "Rad")

(***************************************************************************)
(* extractHeaderParameters: the optional fields and the file date.         *)
(***************************************************************************)
\* if k in headerParams: self.f = str2Float(headerParams[k]), for the
\* optional keys from the n-th up to the last-th
RECURSIVE ReadOptionalsFrom(_, _, _)
ReadOptionalsFrom(c, n, last) ==
    IF c.err # NoErr \/ n > last THEN c
    ELSE ReadOptionalsFrom(
             IF Has(OptionalKeys[n])
             THEN ReadInto(c, OptionalFields[n], <<OptionalKeys[n]>>, "int")
             ELSE Look(c, {OptionalKeys[n]}),
             n + 1, last)

ReadOptionals(c, last) == ReadOptionalsFrom(c, 1, last)

\* self.fileDateObj
ReadFileDate(c) ==
    LET ks == IF Has("FILE_DATE") THEN <<"FILE_DATE">>
              ELSE <<"DATE_PRODUCT_GENERATED">>
        d == Lookup(Look(c, {"FILE_DATE"}), ks)
    IN  IF d.err # NoErr THEN d
        ELSE IF Value(ks) \notin DOMAIN FileDateOf
        THEN Fail(d, ValueError(Value(ks)))
        ELSE Assign(d, "fileDateObj", FileDateOf[Value(ks)])

\* self.fmaskMTLInfo = fmask.config.readMTLFile(inputHeader)
ReadFmaskInfo(c) == Assign(c, "fmaskMTLInfo", HeaderFileName)

ReadOptional(c, cl) ==
    CASE cl = "Landsat5TM" -> ReadOptionals(c, 5)
      [] cl = "LandsatTM" -> ReadFmaskInfo(ReadFileDate(ReadOptionals(c, 5)))
      [] cl = "LandsatETM" ->
           ReadFileDate(ReadFmaskInfo(
               Assign(ReadOptionals(c, 6), "hasImageDataMask", TRUE)))
      [] OTHER -> c

(***************************************************************************)
(* extractHeaderParameters: the call, step by step.  An exception raised   *)
(* in a step ends the call: except Exception as e: raise e.                *)
(***************************************************************************)
MaxQuirks == 1

None == "None"

\* the state of the call when it begins
Call ==
    [self |-> self, err |-> NoErr, reads |-> reads, inProj |-> inProj,
     steps |-> steps, test |-> FALSE, minList |-> << >>, maxList |-> << >>]

\* the call comes to step p, unless an exception has ended it
At(c, p) == IF c.err # NoErr THEN c ELSE [c EXCEPT !.steps = Append(@, p)]

\* the check of userSpInputImage; the header file is read into headerParams
OpenHeader(c, cl, img) ==
    IF cl # "Landsat2MSS" /\ img # None
    THEN Fail(c, ARCSIException(UserImageMsg))
    ELSE IF cl \in {"LandsatTM", "LandsatETM"}
    THEN Assign(c, "headerFileName", HeaderFileName)
    ELSE c

\* the statements of extractHeaderParameters in order, each begun unless an
\* exception has ended the call
Extract(c, cl, img) ==
    LET opened == OpenHeader(At(c, "Open"), cl, img)
        known == ReadCollection(
                     ReadIdentifiers(Recognise(At(opened, "Sensor"), cl), cl),
                     cl)
        placed == ReadRowPath(At(known, "RowPath"), cl)
        dated == ReadAcquisition(At(placed, "Acquisition"), cl)
        cornered == ReadCorners(At(dated, "Corners"), cl)
        projected == ReadProjection(At(cornered, "Projection"), cl)
        centred == ResolveCentre(At(projected, "Square"))
        filed == ReadBandFiles(At(centred, "BandFiles"), cl)
        calibrated == ReadCalibration(At(filed, "Calibration"), cl)
    IN  CASE opened.err # NoErr -> opened
          [] known.err # NoErr -> known
          [] placed.err # NoErr -> placed
          [] dated.err # NoErr -> dated
          [] cornered.err # NoErr -> cornered
          [] projected.err # NoErr -> projected
          [] centred.err # NoErr -> centred
          [] filed.err # NoErr -> filed
          [] calibrated.err # NoErr -> calibrated
          [] OTHER -> IF cl = "Landsat2MSS" THEN calibrated
                      ELSE ReadOptional(At(calibrated, "Optional"), cl)

\* the regular headers of the classes
RegularHeaders ==
    {[cls |-> c, header |-> RegularHeader(c, s[1], s[2])] :
       c \in Classes, s \in Scenes}

\* a new sensor object is given a header file: the call departs from a
\* regular one in at most MaxQuirks respects
HdrInit ==
    /\ \E r \in RegularHeaders :
          /\ cls = r.cls
          /\ \E qs \in QuirkLists(r.cls, r.header, MaxQuirks) :
                /\ headerParams = ChangedBy(r.header, qs, Len(qs))
                /\ userSpInputImage =
                      IF \E n \in 1..Len(qs) : qs[n][1] = 0
                      THEN "user.kea" ELSE None
    /\ self = NewSensor(cls)
    /\ inProj = ""
    /\ hpc = "Ready"
    /\ err = NoErr
    /\ reads = {}
    /\ steps = << >>
    /\ selfBefore = self

\* a call of extractHeaderParameters: it returns, or an exception ends it
\* (except Exception as e: raise e)
ExtractHeaderParameters ==
    /\ hpc = "Ready"
    /\ \E d \in {Extract(Call, cls, userSpInputImage)} :
       /\ self' = d.self
       /\ err' = d.err
       /\ reads' = d.reads
       /\ inProj' = d.inProj
       /\ steps' = d.steps
       /\ hpc' = IF d.err # NoErr THEN "Failed" ELSE "Done"
    /\ UNCHANGED <<cls, userSpInputImage, headerParams, selfBefore>>
    /\ UNCHANGED besidesHdr

HdrNext == ExtractHeaderParameters

(***************************************************************************)
(* The specifications: a run of an AOD estimator, and a call of            *)
(* extractHeaderParameters.                                                *)
(***************************************************************************)
\* no call of extractHeaderParameters is under way
HdrIdle ==
    /\ cls = "Landsat5TM"
    /\ self = NewSensor(cls)
    /\ userSpInputImage = None
    /\ headerParams = RegularHeader(cls, "current", "UTM")
    /\ inProj = ""
    /\ hpc = "Idle"
    /\ err = NoErr
    /\ reads = {}
    /\ steps = << >>
    /\ selfBefore = self

\* no AOD estimator runs
AODIdle ==
    /\ est = "DDV"
    /\ pc = "Idle"
    /\ aotValMin = 0
    /\ aotValMax = 0
    /\ nSegs = 0
    /\ PredictAOTFor = << >>
    /\ numAOTValTests = -1
    /\ i = 0
    /\ j = 0
    /\ cAOT = 0
    /\ cDist = 0
    /\ minAOT = 0
    /\ minDist = 0
    /\ aotVals = << >>
    /\ ratAOT = << >>
    /\ searched = -1
    /\ evals = << >>
    /\ nEvals = << >>
    /\ interpCalls = << >>
    /\ raised = ""
    /\ trail = << >>


(***************************************************************************)
(* extractHeaderParameters called again on the same object: the header     *)
(* file of each call is read into a new dict, the fields of the object     *)
(* are those the calls before have left.                                   *)
(***************************************************************************)
\* the headers given to an object of class c: the regular ones, a UTM
\* scene without one of the optional keys, and one without WRS_PATH
ReuseHeaders(c) ==
    {RegularHeader(c, s[1], s[2]) : s \in Scenes}
    \cup {Without(RegularHeader(c, "current", "UTM"), {OptionalKeys[n]}) :
            n \in 1..Len(OptionalKeys)}
    \cup {Without(RegularHeader(c, "current", "UTM"), {"WRS_PATH"})}

\* a new object and the header of its first call
ReuseInit ==
    /\ cls \in Classes
    /\ headerParams \in ReuseHeaders(cls)
    /\ userSpInputImage = None
    /\ self = NewSensor(cls)
    /\ inProj = ""
    /\ hpc = "Ready"
    /\ err = NoErr
    /\ reads = {}
    /\ steps = << >>
    /\ selfBefore = self

\* the call has ended and the object is given another header file
ReadHeaderFile ==
    /\ hpc \in {"Done", "Failed"}
    /\ headerParams' \in ReuseHeaders(cls)
    /\ hpc' = "Ready"
    /\ err' = NoErr
    /\ reads' = {}
    /\ steps' = << >>
    /\ inProj' = ""
    /\ selfBefore' = self
    /\ UNCHANGED <<cls, self, userSpInputImage>>
    /\ UNCHANGED besidesHdr

ReuseNext == ExtractHeaderParameters \/ ReadHeaderFile

\* the call of extractHeaderParameters on a new object of the class, given
\* the header of the state
OnNewSensor ==
    Extract([self |-> NewSensor(cls), err |-> NoErr, reads |-> {},
             inProj |-> "", steps |-> << >>, test |-> FALSE,
             minList |-> << >>, maxList |-> << >>],
            cls, userSpInputImage)
(***************************************************************************)
(* The mask, cloud-mask and target operations of the sensor classes.  An   *)
(* operation is the list of its statements on the path its inputs select:  *)
(* calls of collaborators (rsgislib, gdal, rios, fmask, os, subprocess),   *)
(* each of which either does its work on the files or raises, and raise    *)
(* statements of the operation itself.                                     *)
(***************************************************************************)
\* the rows of the histogram of the valid-pixel mask are 0..MaxRows
MaxRows == 3

OpClasses == {"Landsat5TM", "LandsatTM", "LandsatETM"}

OSError(c) == [type |-> "OSError", arg |-> c]
RuntimeError(c) == [type |-> "RuntimeError", arg |-> c]
Exception(m) == [type |-> "Exception", arg |-> m]

NoValidDataMsg == "There is no valid data in this image."
WarpFailedMsg == "Could not re-projection image mask: "

\* A file is named by the local of the operation that holds its path, after
\* the directory it is in when that is the scratch directory tmpPath or
\* the sub-directory tmpBaseDIR of it.

\* the per-call sub-directory of generateCloudMask and what is in it
CloudScratch ==
    {"tmpBaseDIR", "tmpBaseDIR/tmpFMaskOut", "tmpBaseDIR/tmpThermalLayer",
     "tmpBaseDIR/bqa_img_file", "tmpBaseDIR/c2_bqa_ind_img_file"}

\* the files under the scratch directory tmpPath
ScratchFiles ==
    CloudScratch
    \cup {"tmpPath/thresImage", "tmpPath/thresImageClumps",
          "tmpPath/thresImageClumpsRMSmall", "tmpPath/thresImageClumpsFinal"}

\* a call of collaborator c that writes the files ws and deletes the
\* files ds, or raises
Do(c, ws, ds) ==
    [call |-> c, writes |-> ws, deletes |-> ds, mayRaise |-> TRUE,
     wrap |-> "", throw |-> NoErr, sets |-> ""]
\* a call that cannot raise (shutil.rmtree with ignore_errors=True)
Quiet(c, ws, ds) == [Do(c, ws, ds) EXCEPT !.mayRaise = FALSE]
\* a call inside try ... except OSError: raise ARCSIException(m)
Wrapped(c, ws, ds, m) == [Do(c, ws, ds) EXCEPT !.wrap = m]
\* a raise statement
Throw(e) == [Do("raise", {}, {}) EXCEPT !.throw = e]
\* the statement self.f = False
SetFalse(f) == [Quiet("assign", {}, {}) EXCEPT !.sets = f]

\* statements ss when b holds, none otherwise
When(b, ss) == IF b THEN ss ELSE << >>

\* generateValidImageDataMask.  Landsat5TM writes the mask in one call;
\* LandsatTM and LandsatETM write a scratch mask, test the rows of its
\* histogram, make the view-angle image when there is none, and combine.
GenerateValidImageDataMask(cl, g) ==
    IF cl = "Landsat5TM"
    THEN <<Do("genValidMask", {"outputImage"}, {})>>
    ELSE <<Do("gen_valid_mask", {"tmpValidPxlMsk"}, {}),
           Do("pop_rat_img_stats", {}, {}),
           Do("gdal.Open", {}, {}),
           Do("rat.readColumn", {}, {})>>
         \o When(g.histRows < 2, <<Throw(ARCSIException(NoValidDataMsg))>>)
         \o When(~g.viewAngle,
                 <<Do("rios.fileinfo.ImageInfo", {}, {}),
                   Do("findImgCorners", {}, {}),
                   Do("findNadirLine", {}, {}),
                   Do("sunAnglesForExtent", {}, {}),
                   Do("satAzLeftRight", {}, {}),
                   Do("makeAnglesImage", {"viewAngleImg"}, {}),
                   Do("gdal.Open", {}, {})>>)
         \o <<Do("band_math", {"outputImage"}, {}),
              Do("delete_gdal_layer", {}, {"tmpValidPxlMsk"})>>

\* the FMASK branch of generateCloudMask
FmaskBranch(g) ==
    <<Do("do_gdal_layers_have_same_proj", {}, {})>>
    \o When(~g.sameProj,
            <<Do("resample_img_to_match", {"tmpBaseDIR/tmpThermalLayer"}, {})>>)
    \o <<Do("fmask.config", {}, {}),
         Do("rios.fileinfo.ImageInfo", {}, {}),
         Do("doFmask", {"tmpBaseDIR/tmpFMaskOut"}, {}),
         Do("image_math", {"outputImage"}, {})>>

\* the LSMSK branch of generateCloudMask
QABranch(g) ==
    IF ~g.qa
    THEN <<Throw(ARCSIException(
        "The QA band is not present - cannot use this for cloud masking."))>>
    ELSE <<Do("do_gdal_layers_have_same_proj", {}, {})>>
         \o When(~g.sameProj,
                 <<Do("resample_img_to_match", {"tmpBaseDIR/bqa_img_file"}, {})>>)
         \o CASE g.collection = 1 ->
                   <<Do("image_math", {"outputImage"}, {})>>
              [] g.collection = 2 ->
                   <<Do("parse_landsat_c2_qa_pixel_img",
                        {"tmpBaseDIR/c2_bqa_ind_img_file"}, {}),
                     Do("band_math", {"outputImage"}, {})>>
              [] OTHER -> <<Throw(ARCSIException(
                  "Can only read Collection 1 and 2 cloud masks."))>>

\* the value of a pixel in the images the branches read: the class fmask
\* gives it, its value in the collection 1 QA band, and its bits in the
\* bands decoded from the collection 2 QA band
Pixels ==
    [fmask : 0..5, qa : {0, 672, 752, 764, 928, 972},
     DilatedCloud : {0, 1}, Cloud : {0, 1}, CloudShadow : {0, 1}]

\* "(b1==2)?1:(b1==3)?2:0"
FmaskClass(b1) == IF b1 = 2 THEN 1 ELSE IF b1 = 3 THEN 2 ELSE 0

\* "(b1==752)||(b1==756)||(b1==760)||(b1==764)?1:(b1==928)|| ... ?2:0"
QAClass(b1) ==
    IF b1 = 752 \/ b1 = 756 \/ b1 = 760 \/ b1 = 764 THEN 1
    ELSE IF b1 = 928 \/ b1 = 932 \/ b1 = 936 \/ b1 = 940 \/ b1 = 960
            \/ b1 = 964 \/ b1 = 968 \/ b1 = 972 THEN 2
    ELSE 0

\* an expression that tests the shadow first
QAIndClassShadowFirst(px) ==
    IF px.CloudShadow = 1 THEN 2
    ELSE IF px.DilatedCloud = 1 \/ px.Cloud = 1 THEN 1
    ELSE 0

\* "(DilatedCloud == 1)||(Cloud == 1)?1:(CloudShadow == 1)?2:0"
QAIndClass(px) ==
    IF px.DilatedCloud = 1 \/ px.Cloud = 1 THEN 1
    ELSE IF px.CloudShadow = 1 THEN 2
    ELSE 0

\* the value generateCloudMask writes to the output image for pixel px
OutputPixel(g, px) ==
    CASE g.method \in {"None", "FMASK"} -> FmaskClass(px.fmask)
      [] g.method = "LSMSK" /\ g.collection = 1 -> QAClass(px.qa)
      [] OTHER -> QAIndClass(px)

\* a removal of the sub-directory that does not look at debugMode
RemoveTreeInDebugMode(g, dbg) ==
    When(~g.tmpDIRExisted, <<Quiet("shutil.rmtree", {}, CloudScratch)>>)

\* the sub-directory is removed when the call made it and debugMode is off
RemoveTree(g, dbg) ==
    When(~dbg /\ ~g.tmpDIRExisted,
         <<Quiet("shutil.rmtree", {}, CloudScratch)>>)

\* generateCloudMask of LandsatTM and LandsatETM
GenerateCloudMask(g, dbg) ==
    When(~g.tmpDIRExisted, <<Do("os.makedirs", {"tmpBaseDIR"}, {})>>)
    \o (CASE g.method \in {"None", "FMASK"} -> FmaskBranch(g)
          [] g.method = "LSMSK" -> QABranch(g)
          [] OTHER -> <<Throw(ARCSIException(
              "Landsat only has FMASK and LSMSK cloud masking options; option provided is unknown."))>>)
    \o When(g.kea,
            <<Do("pop_rat_img_stats", {}, {}),
              Do("gdal.Open", {}, {}),
              Do("rat.readColumn", {}, {}),
              Do("rat.writeColumn", {}, {})>>)
    \o <<Do("copy_proj_from_img", {}, {})>>
    \o RemoveTree(g, dbg)

\* findDDVTargets
FindDDVTargets(cl, dbg) ==
    IF cl # "Landsat5TM"
    THEN <<Throw(ARCSIException("Not Implemented"))>>
    ELSE <<Do("bandPercentile", {}, {}),
           Do("bandMath", {"tmpPath/thresImage"}, {}),
           Do("clump", {"tmpPath/thresImageClumps"}, {}),
           Do("populateStats", {}, {}),
           Do("rmSmallClumps", {"tmpPath/thresImageClumpsRMSmall"}, {}),
           Do("relabelClumps", {"tmpPath/thresImageClumpsFinal"}, {}),
           Do("populateStats", {}, {})>>
         \o When(~dbg,
                 <<Do("gdal.GetDriverByName", {}, {}),
                   Do("Delete", {}, {"tmpPath/thresImage"}),
                   Do("Delete", {}, {"tmpPath/thresImageClumps"}),
                   Do("Delete", {}, {"tmpPath/thresImageClumpsRMSmall"})>>)

\* estimateImageToAODUsingDDV: the targets, their attributes, the search
\* and the interpolation
EstimateImageToAODUsingDDV(cl, g, dbg) ==
    IF cl # "Landsat5TM"
    THEN <<Throw(ARCSIException("Not Implemented"))>>
    ELSE FindDDVTargets(cl, dbg)
         \o <<Do("populateRATWithStats", {}, {}),
              Do("populateRATWithStats", {}, {}),
              Do("populateRATWithStats", {}, {}),
              Do("gdal.Open", {}, {}),
              Do("rat.readColumn", {}, {}),
              Do("rat.writeColumn", {}, {}),
              Do("spatialLocation", {}, {}),
              Do("selectClumpsOnGrid", {}, {}),
              Do("gdal.Open", {}, {}),
              Do("rat.readColumn", {}, {}),
              Do("rat.writeColumn", {}, {})>>
         \o When(g.narrow, <<Throw(ARCSIException(
             "min and max AOT range are too close together, they need to be at least 0.05 apart."))>>)
         \o <<Do("run6SToOptimiseAODValue", {}, {}),
              Do("rat.writeColumn", {}, {}),
              Do("rat.readColumn", {}, {}),
              Do("interpolateImageFromPointData", {"outputAOTImage"}, {})>>
         \o When(~dbg,
                 <<Do("gdal.GetDriverByName", {}, {}),
                   Do("Delete", {}, {"tmpPath/thresImageClumpsFinal"})>>)

\* what applyImageDataMask of LandsatETM can find: no gap_mask directory, no
\* mask files, masks for too few bands, no projection to warp to, an input
\* image gdal cannot open or without a geotransform, and gdalwarp leaving
\* its output or not
MaskCases ==
    {"NoDir", "NoMasks", "FewMasks", "NoWKT", "CannotOpen", "NoTransform",
     "NotWarped", "Warped"}

\* applyImageDataMask.  LandsatTM has no masks; LandsatETM combines the
\* gap masks and, given a projection, warps the result with gdalwarp.
ApplyImageDataMask(cl, g) ==
    IF cl # "LandsatETM"
    THEN <<Throw(ARCSIException(
        "Landsat 5 TM does not provide any image masks, do not use the MASK option."))>>
    ELSE IF g.maskCase = "NoDir" THEN <<SetFalse("hasImageDataMask")>>
    ELSE <<Do("glob", {}, {})>>
         \o When(g.gz, <<Do("subprocess.call", {}, {})>>)
         \o <<Do("glob", {}, {})>>
         \o When(g.maskCase = "NoMasks", <<Throw(Exception("Could not find mask files."))>>)
         \o <<Do("get_img_band_count", {}, {})>>
         \o When(g.maskCase = "FewMasks",
                 <<Throw(ARCSIException(
                     "Could not find image masks for all the input image bands"))>>)
         \o (IF g.maskCase = "NoWKT"
             THEN <<Do("band_math", {"outputMaskImage"}, {})>>
             ELSE <<Do("band_math", {"InitMask_arcsi_outputMaskImage"}, {}),
                    Do("gdal.Open", {}, {})>>
                  \o When(g.maskCase = "CannotOpen",
                          <<Throw(ARCSIException("Could not open the input image: "))>>)
                  \o <<Do("GetGeoTransform", {}, {})>>
                  \o When(g.maskCase = "NoTransform",
                          <<Throw(ARCSIException(
                              "Could read the geotransform from the input image: "))>>)
                  \o <<Wrapped("subprocess.call",
                               IF g.maskCase = "Warped"
                               THEN {"outputMaskImage"} ELSE {},
                               {}, WarpFailedMsg)>>
                  \o When(g.maskCase = "NotWarped",
                          <<Throw(ARCSIException("Reprojected image mask is not present: "))>>)
                  \o <<Do("delete_gdal_layer", {}, {"InitMask_arcsi_outputMaskImage"})>>)
         \o <<Do("mask_img", {"outputImage"}, {})>>

Operations ==
    {"generateValidImageDataMask", "generateCloudMask", "findDDVTargets",
     "estimateImageToAODUsingDDV", "applyImageDataMask"}

\* the statements of operation op of class cl on the path its inputs select
Statements(cl, op, g, dbg) ==
    CASE op = "generateValidImageDataMask" -> GenerateValidImageDataMask(cl, g)
      [] op = "generateCloudMask" -> GenerateCloudMask(g, dbg)
      [] op = "findDDVTargets" -> FindDDVTargets(cl, dbg)
      [] op = "estimateImageToAODUsingDDV" ->
           EstimateImageToAODUsingDDV(cl, g, dbg)
      [] op = "applyImageDataMask" -> ApplyImageDataMask(cl, g)

\* the operations whose body is inside try ... except Exception as e: raise e
Tries(cl, op) ==
    \/ op = "generateCloudMask"
    \/ cl = "Landsat5TM" /\ op \in {"findDDVTargets",
                                    "estimateImageToAODUsingDDV"}

\* a handler that turns every exception into the ARCSIException
CaughtWhatever(s, e) == IF s.wrap # "" THEN ARCSIException(s.wrap) ELSE e

\* the exception that leaves statement s when e is raised in it: the
\* handler around the gdalwarp call turns an OSError into an ARCSIException
Caught(s, e) ==
    IF s.wrap # "" /\ e.type = "OSError" THEN ARCSIException(s.wrap) ELSE e

\* except Exception as e: raise e
Reraise(e) == e

\* the exception that reaches the caller of the operation
Leaves(cl, op, s, e) ==
    IF Tries(cl, op) THEN Reraise(Caught(s, e)) ELSE Caught(s, e)

\* what a call finds when nothing is special
Plain ==
    [histRows |-> 2, viewAngle |-> TRUE, method |-> "None",
     sameProj |-> TRUE, qa |-> TRUE, collection |-> 1,
     tmpDIRExisted |-> FALSE, kea |-> TRUE, maskCase |-> "NoDir",
     gz |-> FALSE, narrow |-> FALSE]

\* the calls of the model: the operation, the class and what it finds
OpCalls ==
    UNION {
      {[cl |-> cl, op |-> "generateValidImageDataMask",
        g |-> [Plain EXCEPT !.histRows = h, !.viewAngle = v]] :
          cl \in OpClasses, h \in 0..MaxRows, v \in BOOLEAN},
      {[cl |-> cl, op |-> "generateCloudMask",
        g |-> [Plain EXCEPT !.method = m, !.sameProj = p, !.qa = q,
                            !.collection = n, !.tmpDIRExisted = t,
                            !.kea = k]] :
          cl \in {"LandsatTM", "LandsatETM"},
          m \in {"None", "FMASK", "LSMSK", "ACOLITE"}, p \in BOOLEAN,
          q \in BOOLEAN, n \in 1..3, t \in BOOLEAN, k \in BOOLEAN},
      {[cl |-> cl, op |-> "findDDVTargets", g |-> Plain] :
          cl \in OpClasses},
      {[cl |-> cl, op |-> "estimateImageToAODUsingDDV",
        g |-> [Plain EXCEPT !.narrow = n]] :
          cl \in OpClasses, n \in BOOLEAN},
      {[cl |-> cl, op |-> "applyImageDataMask",
        g |-> [Plain EXCEPT !.maskCase = m, !.gz = z]] :
          cl \in OpClasses, m \in MaskCases, z \in BOOLEAN}}

\* the files there are before the call
Disk0(g) ==
    (IF g.viewAngle THEN {"viewAngleImg"} ELSE {})
    \cup (IF g.tmpDIRExisted THEN {"tmpBaseDIR"} ELSE {})

\* self.hasImageDataMask once extractHeaderParameters has returned
AfterExtraction(cl) == cl = "LandsatETM"

OpsInit ==
    /\ \E c \in OpCalls : opCls = c.cl /\ opName = c.op /\ given = c.g
    /\ debugMode \in BOOLEAN
    /\ opPc = 1
    /\ disk = Disk0(given)
    /\ written = {}
    /\ attempts = << >>
    /\ thrown = NoErr
    /\ reached = NoErr
    /\ opEnd = "Running"
    /\ hasImageDataMask = AfterExtraction(opCls)

\* the statement that runs next (none at the end of the operation)
Running == Statements(opCls, opName, given, debugMode)
AtStatement ==
    /\ opEnd = "Running"
    /\ opPc <= Len(Running)

\* a collaborator call does its work
Invoke ==
    /\ AtStatement
    /\ \E s \in {Running[opPc]} :
        /\ s.call \notin {"raise", "assign"}
        /\ attempts' = Append(attempts, s.call)
        /\ disk' = (disk \cup s.writes) \ s.deletes
        /\ written' = written \cup s.writes
    /\ opPc' = opPc + 1
    /\ UNCHANGED <<opCls, opName, debugMode, given, thrown, reached, opEnd,
                   hasImageDataMask>>
    /\ UNCHANGED besidesOps

\* an assignment to a field of the object
AssignField ==
    /\ AtStatement
    /\ \E s \in {Running[opPc]} :
        /\ s.call = "assign"
        /\ s.sets = "hasImageDataMask"
        /\ hasImageDataMask' = FALSE
    /\ opPc' = opPc + 1
    /\ UNCHANGED <<opCls, opName, debugMode, given, disk, written, attempts,
                   thrown, reached, opEnd>>
    /\ UNCHANGED besidesOps

\* a collaborator call raises: nothing later in the operation runs
InvokeFails ==
    /\ AtStatement
    /\ \E s \in {Running[opPc]} :
        /\ s.call # "raise"
        /\ s.mayRaise
        /\ attempts' = Append(attempts, s.call)
        /\ \E e \in {OSError(s.call), RuntimeError(s.call)} :
            /\ thrown' = e
            /\ reached' = Leaves(opCls, opName, s, e)
    /\ opEnd' = "Raised"
    /\ UNCHANGED <<opCls, opName, debugMode, given, opPc, disk, written,
                   hasImageDataMask>>
    /\ UNCHANGED besidesOps

\* a raise statement of the operation
RaiseHere ==
    /\ AtStatement
    /\ \E s \in {Running[opPc]} :
        /\ s.call = "raise"
        /\ thrown' = s.throw
        /\ reached' = Leaves(opCls, opName, s, s.throw)
    /\ opEnd' = "Raised"
    /\ UNCHANGED <<opCls, opName, debugMode, given, opPc, disk, written,
                   attempts, hasImageDataMask>>
    /\ UNCHANGED besidesOps

\* the operation returns
ReturnOp ==
    /\ opEnd = "Running"
    /\ opPc > Len(Running)
    /\ opEnd' = "Returned"
    /\ UNCHANGED <<opCls, opName, debugMode, given, opPc, disk, written,
                   attempts, thrown, reached, hasImageDataMask>>
    /\ UNCHANGED besidesOps

OpsNext == Invoke \/ AssignField \/ InvokeFails \/ RaiseHere \/ ReturnOp

OpsIdle ==
    /\ opCls = "Landsat5TM"
    /\ opName = "findDDVTargets"
    /\ debugMode = FALSE
    /\ given = Plain
    /\ opPc = 1
    /\ disk = {}
    /\ written = {}
    /\ attempts = << >>
    /\ thrown = NoErr
    /\ reached = NoErr
    /\ opEnd = "Idle"
    /\ hasImageDataMask = FALSE

(***************************************************************************)
(* arcsidwnldgoog.py: runGoogleImgDwbld copies the entries of a manifest   *)
(* from a bucket with gsutil and writes the list of failures.              *)
(***************************************************************************)
\* a manifest has at most MaxLines lines
MaxLines == 3

\* the lines a manifest is made of: bucket paths, two of them with the same
\* basename, one with blanks around it, and blank lines
Lines == {"gs://a/x.tar", " gs://a/y.tar ", "gs://b/x.tar", "", "  "}

\* line.strip()
Strip(line) ==
    CASE line = " gs://a/y.tar " -> "gs://a/y.tar"
      [] line = "  " -> ""
      [] OTHER -> line

\* os.path.basename(file)
Basename(file) ==
    CASE file \in {"gs://a/x.tar", "gs://b/x.tar"} -> "x.tar"
      [] file = "gs://a/y.tar" -> "y.tar"
      [] file = "" -> ""

\* the lines of a file, stripped, without the blank ones
\* a reading that keeps the blank lines
ReadEveryLine(lines) == [n \in 1..Len(lines) |-> Strip(lines[n])]

RECURSIVE StrippedFrom(_, _)
StrippedFrom(lines, n) ==
    IF n > Len(lines) THEN << >>
    ELSE (IF Strip(lines[n]) # "" THEN <<Strip(lines[n])>> ELSE << >>)
         \o StrippedFrom(lines, n + 1)
ReadTextFile2List(lines) == StrippedFrom(lines, 1)

\* no file at the path
NoFile == <<"no file">>

\* what is at the path outFile after writeList2File(dataList, outFile):
\* the list when the call returns (ok); when it raises, what was there, if
\* open() failed, or the first lines of the list, if a write or the flush
\* failed
WriteList2File(dataList, before, ok) ==
    IF ok THEN {dataList}
    ELSE {before} \cup {SubSeq(dataList, 1, n) : n \in 0..Len(dataList)}

\* the gsutil command of an entry
Cmd(file) == [multi |-> multiDwn, file |-> file]

\* what happened to an entry: its command, whether its basename was in the
\* output directory, and how it went
Pass(file, how) ==
    [cmd |-> Cmd(file), there |-> Basename(file) \in outDIR, how |-> how]

\* what subprocess.call(cmd, shell=True) can do: return 0 having copied,
\* return another exit status having copied nothing, or raise
CallOutcomes == {"copied", "exit status", "OSError", "Exception"}

Manifests == UNION {[1..n -> Lines] : n \in 0..MaxLines}

DwnInit ==
    /\ manifest \in Manifests
    /\ multiDwn \in BOOLEAN
    /\ overwrite \in BOOLEAN
    /\ outFailLst \in BOOLEAN
    /\ outDIR \in {{}, {"x.tar"}}
    /\ fileLst = << >>
    /\ failsLst = << >>
    /\ entry = 0
    /\ failFile = NoFile
    /\ handled = << >>
    /\ dwnPc = "Start"

\* fileLst = readTextFile2List(inFileDwnLst); failsLst = []
ReadManifest ==
    /\ dwnPc = "Start"
    /\ fileLst' = ReadTextFile2List(manifest)
    /\ failsLst' = << >>
    /\ entry' = 1
    /\ dwnPc' = "Loop"
    /\ UNCHANGED <<manifest, multiDwn, overwrite, outFailLst, outDIR,
                   failFile, handled>>
    /\ UNCHANGED besidesDwn

\* the end of a pass of the loop: the failure list is written when a path
\* was given, and an exception of writeList2File ends the run
EndOfPass(fails) ==
    IF outFailLst
    THEN \E ok \in BOOLEAN :
            /\ failFile' \in WriteList2File(fails, failFile, ok)
            /\ dwnPc' = IF ok THEN "Loop" ELSE "Aborted"
    ELSE /\ failFile' = failFile
         /\ dwnPc' = "Loop"

\* a pass of the loop for an entry that is in the output directory, with
\* overwrite off
SkipEntry ==
    /\ dwnPc = "Loop"
    /\ entry <= Len(fileLst)
    /\ ~(overwrite \/ Basename(fileLst[entry]) \notin outDIR)
    /\ handled' = Append(handled, Pass(fileLst[entry], "skipped"))
    /\ EndOfPass(failsLst)
    /\ entry' = entry + 1
    /\ UNCHANGED <<manifest, multiDwn, overwrite, outFailLst, outDIR,
                   fileLst, failsLst>>
    /\ UNCHANGED besidesDwn

\* the failures after the call of an entry: the entry is appended when the
\* call raised
Failures(fails, file, outcome) ==
    IF outcome \in {"OSError", "Exception"} THEN Append(fails, file)
    ELSE fails

\* a pass of the loop for an entry that is copied
CopyEntry ==
    /\ dwnPc = "Loop"
    /\ entry <= Len(fileLst)
    /\ overwrite \/ Basename(fileLst[entry]) \notin outDIR
    /\ \E outcome \in CallOutcomes :
        /\ handled' = Append(handled, Pass(fileLst[entry], outcome))
        /\ outDIR' = IF outcome = "copied"
                     THEN outDIR \cup {Basename(fileLst[entry])}
                     ELSE outDIR
        /\ failsLst' = Failures(failsLst, fileLst[entry], outcome)
        /\ EndOfPass(Failures(failsLst, fileLst[entry], outcome))
    /\ entry' = entry + 1
    /\ UNCHANGED <<manifest, multiDwn, overwrite, outFailLst, fileLst>>
    /\ UNCHANGED besidesDwn

\* the loop is over
EndOfManifest ==
    /\ dwnPc = "Loop"
    /\ entry > Len(fileLst)
    /\ dwnPc' = "Done"
    /\ UNCHANGED <<manifest, multiDwn, overwrite, outFailLst, outDIR,
                   fileLst, failsLst, entry, failFile, handled>>
    /\ UNCHANGED besidesDwn

DwnNext == ReadManifest \/ SkipEntry \/ CopyEntry \/ EndOfManifest

DwnIdle ==
    /\ manifest = << >>
    /\ multiDwn = FALSE
    /\ overwrite = FALSE
    /\ outFailLst = FALSE
    /\ outDIR = {}
    /\ fileLst = << >>
    /\ failsLst = << >>
    /\ entry = 0
    /\ failFile = NoFile
    /\ handled = << >>
    /\ dwnPc = "Idle"

(***************************************************************************)
(* calc6SCoefficients and run6SToOptimiseAODValue: the runs of the         *)
(* radiative-transfer model Py6S.  The outputs of a run and the arguments  *)
(* are whole numbers; an AOD is counted in hundredths.  A coefficient      *)
(* matrix holds float32 numbers, which are the even numbers here.          *)
(***************************************************************************)
\* the outputs of a run for the matrix are made from a number in 0..MaxOut
MaxOut == 1
\* radBlueVal and predBlueVal are in 0..MaxRad
MaxRad == 2

\* the keys of s.outputs.values that are read, in the order of the columns
Keys6S ==
    <<"coef_xa", "coef_xb", "coef_xc", "direct_solar_irradiance",
      "diffuse_solar_irradiance", "environmental_irradiance">>

\* the columns of the matrix: (6, 3) for Landsat5TM, (6, 6) for the others
Columns(cl) == IF cl = "Landsat5TM" THEN 3 ELSE 6

\* the wavelengths of the first six bands, the thermal band among them
WavelengthsWithBand6(cl) ==
    IF cl = "LandsatETM"
    THEN <<"LANDSAT_ETM_B1", "LANDSAT_ETM_B2", "LANDSAT_ETM_B3",
           "LANDSAT_ETM_B4", "LANDSAT_ETM_B5", "LANDSAT_ETM_B6">>
    ELSE <<"LANDSAT_TM_B1", "LANDSAT_TM_B2", "LANDSAT_TM_B3",
           "LANDSAT_TM_B4", "LANDSAT_TM_B5", "LANDSAT_TM_B6">>

\* the wavelengths of the runs, in order: bands 1, 2, 3, 4, 5 and 7
Wavelengths(cl) ==
    IF cl = "LandsatETM"
    THEN <<"LANDSAT_ETM_B1", "LANDSAT_ETM_B2", "LANDSAT_ETM_B3",
           "LANDSAT_ETM_B4", "LANDSAT_ETM_B5", "LANDSAT_ETM_B7">>
    ELSE <<"LANDSAT_TM_B1", "LANDSAT_TM_B2", "LANDSAT_TM_B3",
           "LANDSAT_TM_B4", "LANDSAT_TM_B5", "LANDSAT_TM_B7">>

\* the runs of an operation: one for each band, or the blue band only
NumRuns(op) == IF op = "calc6SCoefficients" THEN 6 ELSE 1

\* the float32 nearest to x, a tie going to the one with the even mantissa
Float32(x) ==
    IF x % 2 = 0 THEN x ELSE IF (x + 1) % 4 = 0 THEN x + 1 ELSE x - 1

\* numpy.zeros((6, n), dtype=numpy.float32)
Zeros(n) == [r \in 1..6 |-> [c \in 1..n |-> 0]]

NoResult == "None"

\* the object s as the operation sets it up before the first run
SetUp(cl, op, a) ==
    [atmos_profile |-> a.atmosProfile,
     aero_profile |-> a.aeroProfile,
     ground_reflectance |-> a.grdRefl,
     geometry |-> "Landsat_TM of the acquisition time and the scene centre",
     altitude |-> a.surfaceAltitude,
     atmos_corr |-> IF op = "calc6SCoefficients" /\ a.useBRDF
                    THEN "AtmosCorrBRDFFromRadiance(200)"
                    ELSE "AtmosCorrLambertianFromRadiance(200)",
     aot550 |-> a.aotVal,
     wavelength |-> "None"]

\* the arguments of the calls of the model
Args6S(op) ==
    IF op = "calc6SCoefficients"
    THEN {[aeroProfile |-> "Maritime", atmosProfile |-> "MidlatitudeSummer",
           grdRefl |-> "GreenVegetation", surfaceAltitude |-> h,
           aotVal |-> 5 + 20 * t, useBRDF |-> u, radBlueVal |-> 0,
           predBlueVal |-> 0, numpy |-> TRUE] :
             h \in 0..1, t \in 0..1, u \in BOOLEAN}
    ELSE {[aeroProfile |-> "Maritime", atmosProfile |-> "MidlatitudeSummer",
           grdRefl |-> "GreenVegetation", surfaceAltitude |-> 0,
           aotVal |-> 5 + 20 * t, useBRDF |-> FALSE, radBlueVal |-> r,
           predBlueVal |-> p, numpy |-> n] :
             t \in 0..1, r \in 0..MaxRad, p \in 0..MaxRad, n \in BOOLEAN}

\* the key a run may leave out of its outputs ("" for none)
MayLack == {"", "coef_xa", "coef_xc", "diffuse_solar_irradiance"}

\* the outputs a run can have: for the matrix, a number for each key that
\* tells the keys apart; for the blue band alone, coefficients a, b and c
Outputs6S(op) ==
    IF op = "calc6SCoefficients"
    THEN {[k \in {Keys6S[n] : n \in 1..6} \ {m} |->
              8 * v + (CHOOSE n \in 1..6 : Keys6S[n] = k)] :
            v \in 0..MaxOut, m \in MayLack}
    ELSE {[k \in {"coef_xa", "coef_xb", "coef_xc"} \ {m} |->
              CASE k = "coef_xa" -> a [] k = "coef_xb" -> b [] OTHER -> c] :
            a \in 1..2, b \in 0..2, c \in -1..1, m \in MayLack}

\* the keys the operation reads after a run, in order
KeysRead(cl, op) ==
    IF op = "calc6SCoefficients"
    THEN SubSeq(Keys6S, 1, Columns(cl))
    ELSE SubSeq(Keys6S, 1, 3)

\* a lookup that gives 0 for a key that is lacking
ValueOrZero(o, k) ==
    IF k \in DOMAIN o THEN [err |-> NoErr, val |-> o[k]]
    ELSE [err |-> NoErr, val |-> 0]

\* s.outputs.values[k]: the value of the key, or a KeyError
ValueOf(o, k) ==
    IF k \in DOMAIN o THEN [err |-> NoErr, val |-> o[k]]
    ELSE [err |-> KeyError(k), val |-> 0]

\* the place of the first of the keys ks whose lookup in o raises (0 if
\* none does)
FirstLacking(o, ks) ==
    IF \A n \in 1..Len(ks) : ValueOf(o, ks[n]).err = NoErr THEN 0
    ELSE CHOOSE n \in 1..Len(ks) :
            /\ ValueOf(o, ks[n]).err # NoErr
            /\ \A m \in 1..(n - 1) : ValueOf(o, ks[m]).err = NoErr

\* the row of the matrix for the outputs o
Row(cl, o) == [c \in 1..Columns(cl) |-> Float32(ValueOf(o, Keys6S[c]).val)]

\* the integer square root of a square
Sqrt(x) == CHOOSE k \in 0..x : k * k = x

\* a subtraction that is an addition
TmpValAdding(a, b, rad) == (a * rad) + b

\* tmpVal = (aX*radBlueVal)-bX
TmpVal(a, b, rad) == (a * rad) - b

\* outDist for the outputs o: reflBlueVal = tmpVal/(1.0+cX*tmpVal) and
\* math.sqrt(math.pow((reflBlueVal - predBlueVal),2)), as a fraction of
\* whole numbers; a division by zero gives inf or nan with a numpy
\* radBlueVal and raises with a Python one
OutDist(o, a) ==
    LET tmpVal == TmpVal(ValueOf(o, "coef_xa").val, ValueOf(o, "coef_xb").val,
                         a.radBlueVal)
        den == 1 + ValueOf(o, "coef_xc").val * tmpVal
        num == tmpVal - a.predBlueVal * den
    IN  IF den # 0
        THEN [err |-> NoErr, num |-> Sqrt(num * num), den |-> Sqrt(den * den)]
        ELSE IF ~a.numpy
        THEN [err |-> [type |-> "ZeroDivisionError",
                       arg |-> "float division by zero"],
              num |-> 0, den |-> 0]
        ELSE IF tmpVal = 0
        THEN [err |-> NoErr, num |-> "nan", den |-> 1]
        ELSE [err |-> NoErr, num |-> "inf", den |-> 1]

SixInit ==
    /\ sixCls \in OpClasses
    /\ sixOp \in {"calc6SCoefficients", "run6SToOptimiseAODValue"}
    /\ sixArgs \in Args6S(sixOp)
    /\ s6 = [wavelength |-> "None"]
    /\ runs = << >>
    /\ outputs = << >>
    /\ outLog = << >>
    /\ sixsCoeffs = << >>
    /\ band = 0
    /\ result = NoResult
    /\ sixErr = NoErr
    /\ sixPc = "Start"

\* from s = Py6S.SixS() to s.aot550 = aotVal
Configure ==
    /\ sixPc = "Start"
    /\ s6' = SetUp(sixCls, sixOp, sixArgs)
    /\ sixsCoeffs' = IF sixOp = "calc6SCoefficients"
                     THEN Zeros(Columns(sixCls)) ELSE << >>
    /\ band' = 1
    /\ sixPc' = "Bands"
    /\ UNCHANGED <<sixCls, sixOp, sixArgs, runs, outputs, outLog, result,
                   sixErr>>
    /\ UNCHANGED besidesSix

\* the wavelength of a band is set, s.run() is called and its outputs are
\* read: the run raises, or a key is lacking, or the row of the band is
\* filled
RunBand ==
    /\ sixPc = "Bands"
    /\ band <= NumRuns(sixOp)
    /\ \E w \in {[s6 EXCEPT !.wavelength = Wavelengths(sixCls)[band]]} :
        /\ s6' = w
        /\ runs' = Append(runs, w)
    /\ \/ /\ sixErr' = RuntimeError("s.run")
          /\ sixPc' = "Raised"
          /\ UNCHANGED <<outputs, outLog, sixsCoeffs, band>>
       \/ \E o \in Outputs6S(sixOp) :
            \E n \in {FirstLacking(o, KeysRead(sixCls, sixOp))} :
                /\ outputs' = o
                /\ outLog' = Append(outLog, o)
                /\ IF n # 0
                   THEN /\ sixErr' = ValueOf(o, Keys6S[n]).err
                        /\ sixPc' = "Raised"
                        /\ sixsCoeffs' =
                              IF sixOp = "calc6SCoefficients"
                              THEN [sixsCoeffs EXCEPT ![band] =
                                      [c \in 1..Columns(sixCls) |->
                                          IF c < n
                                          THEN Row(sixCls, o)[c]
                                          ELSE @[c]]]
                              ELSE sixsCoeffs
                        /\ band' = band
                   ELSE /\ sixErr' = sixErr
                        /\ sixPc' = sixPc
                        /\ sixsCoeffs' =
                              IF sixOp = "calc6SCoefficients"
                              THEN [sixsCoeffs EXCEPT ![band] =
                                      Row(sixCls, o)]
                              ELSE sixsCoeffs
                        /\ band' = band + 1
    /\ UNCHANGED <<sixCls, sixOp, sixArgs, result>>
    /\ UNCHANGED besidesSix

\* return sixsCoeffs
ReturnCoeffs ==
    /\ sixPc = "Bands"
    /\ sixOp = "calc6SCoefficients"
    /\ band > NumRuns(sixOp)
    /\ result' = sixsCoeffs
    /\ sixPc' = "Returned"
    /\ UNCHANGED <<sixCls, sixOp, sixArgs, s6, runs, outputs, outLog,
                   sixsCoeffs, band, sixErr>>
    /\ UNCHANGED besidesSix

\* the distance is computed from the outputs of the blue band and returned
ReturnDist ==
    /\ sixPc = "Bands"
    /\ sixOp = "run6SToOptimiseAODValue"
    /\ band > NumRuns(sixOp)
    /\ \E d \in {OutDist(outputs, sixArgs)} :
        IF d.err # NoErr
        THEN /\ sixErr' = d.err
             /\ sixPc' = "Raised"
             /\ result' = result
        ELSE /\ result' = [num |-> d.num, den |-> d.den]
             /\ sixPc' = "Returned"
             /\ sixErr' = sixErr
    /\ UNCHANGED <<sixCls, sixOp, sixArgs, s6, runs, outputs, outLog,
                   sixsCoeffs, band>>
    /\ UNCHANGED besidesSix

SixNext == Configure \/ RunBand \/ ReturnCoeffs \/ ReturnDist

SixIdle ==
    /\ sixCls = "Landsat5TM"
    /\ sixOp = "calc6SCoefficients"
    /\ sixArgs = << >>
    /\ s6 = << >>
    /\ runs = << >>
    /\ outputs = << >>
    /\ outLog = << >>
    /\ sixsCoeffs = << >>
    /\ band = 0
    /\ result = NoResult
    /\ sixErr = NoErr
    /\ sixPc = "Idle"

(***************************************************************************)
(* convertImageToSurfaceReflDEMElevLUT and                                 *)
(* convertImageToSurfaceReflAOTDEMElevLUT of LandsatTM and LandsatETM, and *)
(* a caller that makes several calls for a scene, giving None or the table *)
(* of the last return.  Elevations and AODs are counted in steps of the    *)
(* grid of the builder.  The matrix that calc6SCoefficients gives is       *)
(* written as the arguments it is computed from.                           *)
(***************************************************************************)
\* the calls the caller makes
MaxCalls == 2
\* surfaceAltitudeMax is in 0..MaxElev
MaxElev == 1
\* aotVal and aotMax are in 0..MaxAOT
MaxAOT == 1

LutClasses == {"LandsatTM", "LandsatETM"}

LutOps ==
    {"convertImageToSurfaceReflDEMElevLUT",
     "convertImageToSurfaceReflAOTDEMElevLUT"}

\* the arguments of a call that decide the table
LutArgs(op) ==
    IF op = "convertImageToSurfaceReflDEMElevLUT"
    THEN {[aeroProfile |-> "Maritime", atmosProfile |-> "MidlatitudeSummer",
           grdRefl |-> "GreenVegetation", useBRDF |-> u,
           surfaceAltitudeMin |-> 0, surfaceAltitudeMax |-> h,
           aotMin |-> t, aotMax |-> t] :
             u \in BOOLEAN, h \in 0..MaxElev, t \in 0..MaxAOT}
    ELSE {[aeroProfile |-> "Maritime", atmosProfile |-> "MidlatitudeSummer",
           grdRefl |-> "GreenVegetation", useBRDF |-> u,
           surfaceAltitudeMin |-> 0, surfaceAltitudeMax |-> h,
           aotMin |-> 0, aotMax |-> t] :
             u \in BOOLEAN, h \in 0..MaxElev, t \in 0..MaxAOT}

\* the values of a grid from lo to hi, in order
GridFrom(lo, hi) == [n \in 1..(hi - lo + 1) |-> lo + n - 1]

\* calc6SCoefficients(aeroProfile, atmosProfile, grdRefl, elev, aot,
\* useBRDF): the matrix of these arguments
Calc6SCoefficients(a, elev, aot) ==
    [aeroProfile |-> a.aeroProfile, atmosProfile |-> a.atmosProfile,
     grdRefl |-> a.grdRefl, surfaceAltitude |-> elev, aotVal |-> aot,
     useBRDF |-> a.useBRDF]

\* buildElevation6SCoeffLUT: a feature for each elevation of the grid, the
\* estimator being called once for each
BuildElevation6SCoeffLUT(a) ==
    LET elevs == GridFrom(a.surfaceAltitudeMin, a.surfaceAltitudeMax)
    IN  [n \in 1..Len(elevs) |->
            [Elev |-> elevs[n],
             Coeffs |-> Calc6SCoefficients(a, elevs[n], a.aotMin)]]

\* buildElevationAOT6SCoeffLUT: for each elevation of the grid a feature
\* for each AOD of the grid, the estimator being called once for each
BuildElevationAOT6SCoeffLUT(a) ==
    LET elevs == GridFrom(a.surfaceAltitudeMin, a.surfaceAltitudeMax)
        aots == GridFrom(a.aotMin, a.aotMax)
    IN  [n \in 1..Len(elevs) |->
            [Elev |-> elevs[n],
             Coeffs |-> [m \in 1..Len(aots) |->
                           [AOT |-> aots[m],
                            Coeffs |-> Calc6SCoefficients(a, elevs[n],
                                                          aots[m])]]]]

\* the calls of the estimator that a build makes: the points of the grid
GridPoints(op, a) ==
    IF op = "convertImageToSurfaceReflDEMElevLUT"
    THEN a.surfaceAltitudeMax - a.surfaceAltitudeMin + 1
    ELSE (a.surfaceAltitudeMax - a.surfaceAltitudeMin + 1)
            * (a.aotMax - a.aotMin + 1)

\* the six Band6SCoeff of a matrix: band b is made of row b
ImgBandCoeffs(mtx) ==
    [b \in 1..6 |->
        [band |-> b, aX |-> <<mtx, b - 1, 0>>,
         bX |-> <<mtx, b - 1, 1>>, cX |-> <<mtx, b - 1, 2>>,
         DirIrr |-> <<mtx, b - 1, 3>>,
         DifIrr |-> <<mtx, b - 1, 4>>,
         EnvIrr |-> <<mtx, b - 1, 5>>]]

\* the value None of a parameter that takes a list
NoTable == [isNone |-> TRUE, list |-> << >>]

\* a list of features as the value of such a parameter
Table(features) == [isNone |-> FALSE, list |-> features]

\* the table made of the LUT of the builder
ElevCoeffs(op, lut) ==
    IF op = "convertImageToSurfaceReflDEMElevLUT"
    THEN Table([n \in 1..Len(lut) |->
            [Elev |-> lut[n].Elev, Coeffs |-> ImgBandCoeffs(lut[n].Coeffs)]])
    ELSE Table([n \in 1..Len(lut) |->
            [Elev |-> lut[n].Elev,
             Coeffs |-> [m \in 1..Len(lut[n].Coeffs) |->
                           [AOT |-> lut[n].Coeffs[m].AOT,
                            Coeffs |->
                               ImgBandCoeffs(lut[n].Coeffs[m].Coeffs)]]]])

\* the value of a call that has not returned
NoReturn == <<"", NoTable>>

\* the table that a call with arguments a and no table builds
BuiltTable(op, a) ==
    ElevCoeffs(op, IF op = "convertImageToSurfaceReflDEMElevLUT"
                   THEN BuildElevation6SCoeffLUT(a)
                   ELSE BuildElevationAOT6SCoeffLUT(a))

\* a table is built whatever the caller gave
BuildAlways(tbl) == TRUE

\* if elevCoeffs is None
ToBuild(tbl) == tbl.isNone

LutInit ==
    /\ lutCls \in LutClasses
    /\ lutOp \in LutOps
    /\ lutArgs = << >>
    /\ elevCoeffs = NoTable
    /\ lutHeld = NoTable
    /\ builderCalls = 0
    /\ estimatorCalls = 0
    /\ tablesBuilt = 0
    /\ lutBefore = NoTable
    /\ lutApplied = NoTable
    /\ lutResult = NoReturn
    /\ lutErr = NoErr
    /\ lutCalls = 0
    /\ lutFailed = 0
    /\ threaded = TRUE
    /\ lutPc = "Caller"

\* the caller calls the operation with no table or with the table it holds
LutCall ==
    /\ lutPc \in {"Caller", "Raised"}
    /\ lutCalls < MaxCalls
    /\ lutArgs' \in LutArgs(lutOp)
    /\ elevCoeffs' \in {NoTable, lutHeld}
    /\ threaded' = (threaded /\ elevCoeffs' = lutHeld)
    /\ lutBefore' = elevCoeffs'
    /\ builderCalls' = 0
    /\ estimatorCalls' = 0
    /\ lutApplied' = NoTable
    /\ lutResult' = NoReturn
    /\ lutErr' = NoErr
    /\ lutCalls' = lutCalls + 1
    /\ lutPc' = "Called"
    /\ UNCHANGED <<lutCls, lutOp, lutHeld, tablesBuilt, lutFailed>>
    /\ UNCHANGED besidesLut

\* no table was given: the builder is called and its LUT is made into the
\* table, or a run of the estimator raises at a point of the grid
BuildTable ==
    /\ lutPc = "Called"
    /\ ToBuild(elevCoeffs)
    /\ builderCalls' = builderCalls + 1
    /\ \/ /\ elevCoeffs' = BuiltTable(lutOp, lutArgs)
          /\ estimatorCalls' = estimatorCalls + GridPoints(lutOp, lutArgs)
          /\ tablesBuilt' = tablesBuilt + 1
          /\ lutPc' = "Built"
          /\ lutErr' = lutErr
          /\ lutFailed' = lutFailed
       \/ \E n \in 1..GridPoints(lutOp, lutArgs) :
          /\ elevCoeffs' = elevCoeffs
          /\ estimatorCalls' = estimatorCalls + n
          /\ tablesBuilt' = tablesBuilt
          /\ lutPc' = "Raised"
          /\ lutErr' = RuntimeError("s.run")
          /\ lutFailed' = lutFailed + 1
    /\ UNCHANGED <<lutCls, lutOp, lutArgs, lutHeld, lutBefore, lutApplied,
                   lutResult, lutCalls, threaded>>
    /\ UNCHANGED besidesLut

\* the apply step is given the table, and raises or writes the image
ApplyTable ==
    /\ \/ lutPc = "Built"
       \/ lutPc = "Called" /\ ~ToBuild(elevCoeffs)
    /\ lutApplied' = elevCoeffs
    /\ \/ /\ lutPc' = "Applied"
          /\ lutErr' = lutErr
          /\ lutFailed' = lutFailed
       \/ /\ lutPc' = "Raised"
          /\ lutFailed' = lutFailed + 1
          /\ lutErr' = RuntimeError(IF lutOp =
                                        "convertImageToSurfaceReflDEMElevLUT"
                                     THEN "apply_6s_coeff_elev_lut_param"
                                     ELSE "apply_6s_coeff_elev_aot_lut_param")
    /\ UNCHANGED <<lutCls, lutOp, lutArgs, elevCoeffs, lutHeld, builderCalls,
                   estimatorCalls, tablesBuilt, lutBefore, lutResult,
                   lutCalls, threaded>>
    /\ UNCHANGED besidesLut

\* return outputImage, elevCoeffs: the caller keeps the table
LutReturn ==
    /\ lutPc = "Applied"
    /\ lutResult' = <<"outputImage", elevCoeffs>>
    /\ lutHeld' = elevCoeffs
    /\ lutPc' = "Caller"
    /\ UNCHANGED <<lutCls, lutOp, lutArgs, elevCoeffs, builderCalls,
                   estimatorCalls, tablesBuilt, lutBefore, lutApplied,
                   lutErr, lutCalls, lutFailed, threaded>>
    /\ UNCHANGED besidesLut

LutNext == LutCall \/ BuildTable \/ ApplyTable \/ LutReturn

LutIdle ==
    /\ lutCls = "LandsatTM"
    /\ lutOp = "convertImageToSurfaceReflDEMElevLUT"
    /\ lutArgs = << >>
    /\ elevCoeffs = NoTable
    /\ lutHeld = NoTable
    /\ builderCalls = 0
    /\ estimatorCalls = 0
    /\ tablesBuilt = 0
    /\ lutBefore = NoTable
    /\ lutApplied = NoTable
    /\ lutResult = NoReturn
    /\ lutErr = NoErr
    /\ lutCalls = 0
    /\ lutFailed = 0
    /\ threaded = TRUE
    /\ lutPc = "Idle"

(***************************************************************************)
(* The search loops of estimateImageToAODUsingDDV and                      *)
(* estimateImageToAODUsingDOS over a segment table whose rows come in any  *)
(* order.  A row has the flag PredictAOTFor of its segment and, for each   *)
(* candidate, the distance that run6SToOptimiseAODValue returns for the    *)
(* attributes of the segment (mean radiance, predicted reflectance, mean   *)
(* elevation).                                                             *)
(***************************************************************************)
\* the rows a segment can have when n candidates are tested
RowsOf(n) == [flag : {0, 1}, dist : [0..(n - 1) -> Dists]]

\* for j in range(numAOTValTests): the candidates from the k-th on, for a
\* segment with distances dist; gives <<minAOT, minDist>>
RECURSIVE InnerLoopFrom(_, _, _, _, _)
InnerLoopFrom(lo, dist, k, n, best) ==
    IF k >= n THEN best
    ELSE InnerLoopFrom(lo, dist, k + 1, n,
            UpdateBest(k, Candidate(lo, k), dist[k], best[1], best[2]))

\* the table in the order of the segment ids: the AOT of each segment and
\* the locals after row s, the locals before it being best
RECURSIVE InIdOrderFrom(_, _, _, _, _)
InIdOrderFrom(rows, lo, n, s, best) ==
    IF s >= Len(rows) THEN << >>
    ELSE IF SearchSegment(rows[s + 1].flag)
    THEN <<InnerLoopFrom(lo, rows[s + 1].dist, 0, n, best)[1]>>
            \o InIdOrderFrom(rows, lo, n, s + 1,
                    InnerLoopFrom(lo, rows[s + 1].dist, 0, n, best))
    ELSE <<0>> \o InIdOrderFrom(rows, lo, n, s + 1, best)

\* aotVals of a run over the table in the order of the segment ids
InIdOrder(rows, lo, n) == InIdOrderFrom(rows, lo, n, 0, <<0, 0>>)

OrdInit ==
    /\ ordMin = AOTStep
    /\ ordTests \in {NumAOTValTests(0, w, FALSE) : w \in {0, AOTStep}}
    /\ ordRows \in [1..MaxSegs -> RowsOf(ordTests)]
    /\ ordSeq = << >>
    /\ ordBest = <<0, 0>>
    /\ ordAOT = << >>
    /\ ordPc = "Search"

\* the segments whose rows the loop has not come to
RowsLeft == (1..Len(ordRows)) \ {ordSeq[k] : k \in 1..Len(ordSeq)}

\* a pass of the outer loop for the row of a flagged segment: the inner
\* loop, then aotVals[i] = minAOT
SearchRow ==
    /\ ordPc = "Search"
    /\ \E s \in RowsLeft :
        /\ SearchSegment(ordRows[s].flag)
        /\ \E b \in {InnerLoopFrom(ordMin, ordRows[s].dist, 0, ordTests,
                                   ordBest)} :
            /\ ordBest' = b
            /\ ordAOT' = Append(ordAOT, b[1])
        /\ ordSeq' = Append(ordSeq, s)
    /\ UNCHANGED <<ordRows, ordMin, ordTests, ordPc>>
    /\ UNCHANGED besidesOrd

\* a pass of the outer loop for the row of another segment: aotVals[i] = 0
SkipRow ==
    /\ ordPc = "Search"
    /\ \E s \in RowsLeft :
        /\ ~SearchSegment(ordRows[s].flag)
        /\ ordAOT' = Append(ordAOT, 0)
        /\ ordSeq' = Append(ordSeq, s)
    /\ UNCHANGED <<ordRows, ordMin, ordTests, ordBest, ordPc>>
    /\ UNCHANGED besidesOrd

OrdNext == SearchRow \/ SkipRow

OrdIdle ==
    /\ ordRows = << >>
    /\ ordMin = 0
    /\ ordTests = 0
    /\ ordSeq = << >>
    /\ ordBest = <<0, 0>>
    /\ ordAOT = << >>
    /\ ordPc = "Idle"


(***************************************************************************)
(* The reader of the MTL header file in extractHeaderParameters.  A line   *)
(* is the list of its characters; the characters of the model are the      *)
(* blank, the equals sign, the double quote and a word (GROUP or           *)
(* END_GROUP) that stands for the run of its letters.                      *)
(***************************************************************************)
\* the lines of the model have at most MaxChars characters
MaxChars == 3

Blank == " "
EqualsSign == "="
Quote == "\""
Words == {"GROUP", "END_GROUP"}

\* the lines of at most n characters over the characters cs
RECURSIVE LinesOver(_, _)
LinesOver(cs, n) ==
    IF n = 0 THEN {<< >>}
    ELSE LET shorter == LinesOver(cs, n - 1) IN
         shorter \cup {Append(l, ch) : l \in shorter, ch \in cs}

\* s.strip()
RECURSIVE LStripped(_)
LStripped(s) ==
    IF s # << >> /\ Head(s) = Blank THEN LStripped(Tail(s)) ELSE s
RECURSIVE RStripped(_)
RStripped(s) ==
    IF s # << >> /\ s[Len(s)] = Blank
    THEN RStripped(SubSeq(s, 1, Len(s) - 1)) ELSE s
Stripped(s) == RStripped(LStripped(s))

\* s.split('='), from the n-th character on, parts being the fields ended
\* so far and cur the field begun
RECURSIVE SplitFrom(_, _, _, _)
SplitFrom(s, n, parts, cur) ==
    IF n > Len(s) THEN Append(parts, cur)
    ELSE IF s[n] = EqualsSign
    THEN SplitFrom(s, n + 1, Append(parts, cur), << >>)
    ELSE SplitFrom(s, n + 1, parts, Append(cur, s[n]))
SplitLine(s) == SplitFrom(s, 1, << >>, << >>)

\* s.replace('"', '')
IsNoQuote(ch) == ch # Quote
WithoutQuotes(s) == SelectSeq(s, IsNoQuote)

\* a test that filters the GROUP and END_GROUP lines
IsNeitherGroupLine(k) == (k # <<"GROUP">>) /\ (k # <<"END_GROUP">>)

\* (lineVals[0].strip() != "GROUP") or (lineVals[0].strip() != "END_GROUP")
IsNoGroupLine(k) == (k # <<"GROUP">>) \/ (k # <<"END_GROUP">>)

\* the line the loop is at, stripped
ThisLine == Stripped(hFile[lineNo + 1])

\* the line is one the loop stores
IsStored(line) ==
    /\ line # << >>
    /\ Len(SplitLine(line)) = 2
    /\ IsNoGroupLine(Stripped(SplitLine(line)[1]))

\* hFile = open(inputHeader, 'r'); headerParams = dict()
MtlInit ==
    /\ \E w \in Words :
          hFile \in LinesOver({Blank, EqualsSign, Quote, w}, MaxChars)
                    \X LinesOver({Blank, EqualsSign, Quote, w}, MaxChars)
    /\ lineNo = 0
    /\ mtlParams = << >>
    /\ mtlPc = "Read"

\* a pass of the loop that stores the line
StoreLine ==
    /\ mtlPc = "Read"
    /\ lineNo < Len(hFile)
    /\ IsStored(ThisLine)
    /\ \E lineVals \in {SplitLine(ThisLine)} :
          mtlParams' = (Stripped(lineVals[1]) :>
                           WithoutQuotes(Stripped(lineVals[2]))) @@ mtlParams
    /\ lineNo' = lineNo + 1
    /\ UNCHANGED <<hFile, mtlPc>>
    /\ UNCHANGED besidesMtl

\* a pass of the loop that stores nothing
IgnoreLine ==
    /\ mtlPc = "Read"
    /\ lineNo < Len(hFile)
    /\ ~IsStored(ThisLine)
    /\ lineNo' = lineNo + 1
    /\ UNCHANGED <<hFile, mtlParams, mtlPc>>
    /\ UNCHANGED besidesMtl

\* hFile.close()
CloseFile ==
    /\ mtlPc = "Read"
    /\ lineNo = Len(hFile)
    /\ mtlPc' = "Closed"
    /\ UNCHANGED <<hFile, lineNo, mtlParams>>
    /\ UNCHANGED besidesMtl

MtlNext == StoreLine \/ IgnoreLine \/ CloseFile

MtlIdle ==
    /\ hFile = << >>
    /\ lineNo = 0
    /\ mtlParams = << >>
    /\ mtlPc = "Idle"
(***************************************************************************)
(* The specifications.                                                     *)
(***************************************************************************)
AODStart ==
    HdrIdle /\ OpsIdle /\ DwnIdle /\ SixIdle
        /\ LutIdle /\ OrdIdle /\ MtlIdle /\ AODInit
AODNext ==
    \/ SelectTargets
    \/ PopulateAttributes
    \/ ChooseGrid
    \/ CheckRange
    \/ Evaluate6S
    \/ AssignAOT
    \/ SkipSegment
    \/ WriteAOT
    \/ Interpolate
SpecAOD == AODStart /\ [][AODNext]_vars

HdrStart ==
    AODIdle /\ OpsIdle /\ DwnIdle /\ SixIdle
        /\ LutIdle /\ OrdIdle /\ MtlIdle /\ HdrInit
SpecHdr == HdrStart /\ [][HdrNext]_vars

OpsStart ==
    HdrIdle /\ AODIdle /\ DwnIdle /\ SixIdle
        /\ LutIdle /\ OrdIdle /\ MtlIdle /\ OpsInit
SpecOps == OpsStart /\ [][OpsNext]_vars

DwnStart ==
    HdrIdle /\ AODIdle /\ OpsIdle /\ SixIdle
        /\ LutIdle /\ OrdIdle /\ MtlIdle /\ DwnInit
SpecDwn == DwnStart /\ [][DwnNext]_vars
\* the run is one thread of control: a pass of the loop that can be made is
\* made, every call of a pass coming back
FairDwn == DwnStart /\ [][DwnNext]_vars /\ WF_vars(DwnNext)

SixStart ==
    HdrIdle /\ AODIdle /\ OpsIdle /\ DwnIdle
        /\ LutIdle /\ OrdIdle /\ MtlIdle /\ SixInit
SpecSix == SixStart /\ [][SixNext]_vars

LutStart ==
    HdrIdle /\ AODIdle /\ OpsIdle /\ DwnIdle
        /\ SixIdle /\ OrdIdle /\ MtlIdle /\ LutInit
SpecLut == LutStart /\ [][LutNext]_vars

OrdStart ==
    HdrIdle /\ AODIdle /\ OpsIdle /\ DwnIdle
        /\ SixIdle /\ LutIdle /\ MtlIdle /\ OrdInit
SpecOrd == OrdStart /\ [][OrdNext]_vars


ReuseStart ==
    AODIdle /\ OpsIdle /\ DwnIdle /\ SixIdle
        /\ LutIdle /\ OrdIdle /\ MtlIdle /\ ReuseInit
SpecReuse == ReuseStart /\ [][ReuseNext]_vars

MtlStart ==
    HdrIdle /\ AODIdle /\ OpsIdle /\ DwnIdle
        /\ SixIdle /\ LutIdle /\ OrdIdle /\ MtlInit
SpecMtl == MtlStart /\ [][MtlNext]_vars


(***************************************************************************)
(* Definitions used to state the properties of the estimators.             *)
(***************************************************************************)

\* phase p has been entered
Entered(p) == \E k \in 1..Len(trail) : trail[k] = p

\* the search has dealt with segment s (its aotVals entry is assigned)
Handled(s) == numAOTValTests # -1 /\ s \in SegIds /\ s < i

\* the AOT value of segment s: local aotVals during the search, the "AOT"
\* column once it is written (the local array is filtered afterwards)
AssignedAOT(s) == IF Entered("Interpolate") THEN ratAOT[s] ELSE aotVals[s]

\* a is the candidate of the pair of es with the least distance, and of
\* the pairs with that distance the earliest
IsFirstMinimum(es, a) ==
    \E k \in 1..Len(es) :
        /\ es[k][1] = a
        /\ \A m \in 1..Len(es) : es[k][2] <= es[m][2]
        /\ \A m \in 1..(k - 1) : es[m][2] > es[k][2]

\* n - 1 is the ceiling of w / 0.05; where w is a whole number of steps
\* the floating-point quotient may have rounded up past it by one
IsStepCount(n, w) ==
    /\ (n - 1) * AOTStep >= w
    /\ \/ (n - 2) * AOTStep < w
       \/ w % AOTStep = 0 /\ (n - 2) * AOTStep = w

FlaggedSegs == {s \in SegIds : PredictAOTFor[s] = 1}

RECURSIVE SumUpTo(_, _)
SumUpTo(f, n) == IF n < 0 THEN 0 ELSE f[n] + SumUpTo(f, n - 1)

(***************************************************************************)
(* C1.  Per-segment AOD search: once the search has assigned the AOT of a  *)
(* selected segment, that AOT is the candidate whose distance is the       *)
(* minimum of the distances returned for the segment's candidates, and     *)
(* among candidates sharing the minimum the first one evaluated.           *)
(***************************************************************************)
C1_FirstMinimumAssigned ==
    (searched >= 0 /\ Handled(searched))
        => IsFirstMinimum(evals, AssignedAOT(searched))

\* distances [2,0,0,1] for the candidates [0.00,0.05,0.10,0.15] (the tie of
\* the spec's example [3,1,1,2]): the second candidate, 0.05, is assigned
C1_Witness ==
    /\ searched >= 0
    /\ Handled(searched)
    /\ evals = << <<0, 2>>, <<5, 0>>, <<10, 0>>, <<15, 1>> >>
    /\ AssignedAOT(searched) = 5

C3_NarrowRangeRaises ==
    (aotValMax - aotValMin < AOTStep) =>
        /\ numAOTValTests = -1
        /\ interpCalls = << >>
        /\ pc # "Done"

(***************************************************************************)
(* C4.  Once the search has dealt with a segment: if its PredictAOTFor     *)
(* flag is not 1 no radiative-transfer run was made for it and its AOT is  *)
(* 0; if the flag is 1 exactly numAOTValTests runs were made for it and    *)
(* its AOT is one of the candidates.  When the search is over the number   *)
(* of runs is numAOTValTests times the number of flagged segments.         *)
(***************************************************************************)
C4_EvaluationsPerSegment ==
    numAOTValTests # -1 =>
        /\ \A s \in SegIds :
              Handled(s) =>
                  IF PredictAOTFor[s] = 1
                  THEN /\ nEvals[s] = numAOTValTests
                       /\ \E k \in 0..(numAOTValTests - 1) :
                             AssignedAOT(s) = aotValMin + (AOTStep * k)
                  ELSE /\ nEvals[s] = 0
                       /\ AssignedAOT(s) = 0
        /\ i >= nSegs =>
              SumUpTo(nEvals, nSegs - 1)
                  = numAOTValTests * Cardinality(FlaggedSegs)

\* a finished run over a flagged and an unflagged segment
C4_Witness ==
    /\ pc = "Done"
    /\ nSegs = 2
    /\ PredictAOTFor[0] = 0
    /\ PredictAOTFor[1] = 1
    /\ numAOTValTests = 3
    /\ nEvals[0] = 0
    /\ nEvals[1] = 3
    /\ ratAOT[0] = 0
    /\ ratAOT[1] = aotValMin + 10

(***************************************************************************)
(* C5.  Every call of the interpolator is given smoothing 10.0 and floor   *)
(* 0.05 and three arrays of equal length holding, in segment order, the    *)
(* easting, northing and assigned AOD of exactly the segments that were    *)
(* flagged and searched; no unsearched segment is passed.                  *)
(***************************************************************************)
C5_InterpolatorInput ==
    \A c \in 1..Len(interpCalls) :
        LET a == interpCalls[c] IN
        /\ a.smoothing = 10
        /\ a.floor = 5
        /\ Len(a.Eastings) = Cardinality(FlaggedSegs)
        /\ Len(a.Northings) = Cardinality(FlaggedSegs)
        /\ Len(a.aotVals) = Cardinality(FlaggedSegs)
        /\ \A s \in FlaggedSegs :
              LET k == Cardinality({t \in FlaggedSegs : t < s}) + 1 IN
              /\ a.Eastings[k] = Easting(s)
              /\ a.Northings[k] = Northing(s)
              /\ a.aotVals[k] = ratAOT[s]
              /\ nEvals[s] = numAOTValTests

\* a call that passes one of two segments, with a non-zero AOD
C5_Witness ==
    /\ Len(interpCalls) = 1
    /\ nSegs = 2
    /\ PredictAOTFor[0] = 0
    /\ PredictAOTFor[1] = 1
    /\ interpCalls[1].Eastings = <<Easting(1)>>
    /\ interpCalls[1].Northings = <<Northing(1)>>
    /\ interpCalls[1].aotVals = <<10>>

(***************************************************************************)
(* C6.  A run enters the phases SelectTargets, PopulateAttributes,         *)
(* ChooseGrid, SearchAOD, Interpolate, Done in that order, each at most    *)
(* once; the search starts only after the PredictAOTFor flags are written; *)
(* the interpolator is invoked at most once, only after every segment has  *)
(* been dealt with and the AOT column written, and exactly once in a run   *)
(* that is done; an exception ends the run: nothing executes after it.     *)
(***************************************************************************)
C6_PhaseOrder ==
    /\ Len(trail) <= Len(Phases)
    /\ \A k \in 1..Len(trail) : trail[k] = Phases[k]
    /\ IF raised = "" THEN pc = trail[Len(trail)] ELSE pc = "Failed"
    /\ pc = "SearchAOD" => DOMAIN PredictAOTFor = SegIds /\ nSegs >= 1
    /\ Len(interpCalls) <= 1
    /\ interpCalls # << >> =>
          /\ Entered("Interpolate")
          /\ numAOTValTests # -1
          /\ i >= nSegs
          /\ DOMAIN ratAOT = SegIds
    /\ pc = "Done" => Len(interpCalls) = 1
    /\ pc \in {"Done", "Failed"} => ~ENABLED AODNext

\* a run that went through every phase and called the interpolator once
C6_Witness ==
    /\ pc = "Done"
    /\ trail = Phases
    /\ Len(interpCalls) = 1
    /\ raised = ""

(***************************************************************************)
(* Definitions used to state the properties of extractHeaderParameters.    *)
(***************************************************************************)

\* the call has come to step p
Taken(p) == \E n \in 1..Len(steps) : steps[n] = p

\* the call has come to the rectangularity check
ReachedSquare == Taken("Square")

\* a projected corner coordinate of the header, in half units
HeaderCorner(k) == 2 * IntOf[headerParams[k]]

\* the corners of the header form a rectangle
HeaderIsRectangle ==
    /\ HeaderCorner("CORNER_UL_PROJECTION_X_PRODUCT")
          = HeaderCorner("CORNER_LL_PROJECTION_X_PRODUCT")
    /\ HeaderCorner("CORNER_UL_PROJECTION_Y_PRODUCT")
          = HeaderCorner("CORNER_UR_PROJECTION_Y_PRODUCT")
    /\ HeaderCorner("CORNER_UR_PROJECTION_X_PRODUCT")
          = HeaderCorner("CORNER_LR_PROJECTION_X_PRODUCT")
    /\ HeaderCorner("CORNER_LL_PROJECTION_Y_PRODUCT")
          = HeaderCorner("CORNER_LR_PROJECTION_Y_PRODUCT")

\* the fields of the scene that are derived after the rectangularity check
SceneFields(c) ==
    {"xCentre", "yCentre", "latCentre", "lonCentre"}
    \cup {FileField(Bands(c)[n]) : n \in BandIdx(c)}
    \cup BandFields(c)

(***************************************************************************)
(* C7.  The scene centre is derived for rectangular corner sets only.     *)
(* Once the rectangularity check has run: if the projected corners of the *)
(* header are no rectangle (not (xTL = xBL and yTL = yTR and xTR = xBR    *)
(* and yBL = yBR)), the call has failed with 'Image is not square in      *)
(* projected coordinates.' and the centre, the centre latitude and        *)
(* longitude, the band files and the calibration fields are as they were  *)
(* before the call; if they are a rectangle, that error is not raised and *)
(* xCentre = xTL + (xTR - xTL)/2 and yCentre = yBR + (yTL - yBR)/2        *)
(* exactly (stated doubled, without a division).                          *)
(***************************************************************************)
C7_CentreOfRectangle ==
    Taken("Square") =>
        IF HeaderIsRectangle
        THEN /\ err # ARCSIException(SquareMsg)
             /\ 2 * self["xCentre"] =
                   (2 * HeaderCorner("CORNER_UL_PROJECTION_X_PRODUCT"))
                   + (HeaderCorner("CORNER_UR_PROJECTION_X_PRODUCT")
                      - HeaderCorner("CORNER_UL_PROJECTION_X_PRODUCT"))
             /\ 2 * self["yCentre"] =
                   (2 * HeaderCorner("CORNER_LR_PROJECTION_Y_PRODUCT"))
                   + (HeaderCorner("CORNER_UL_PROJECTION_Y_PRODUCT")
                      - HeaderCorner("CORNER_LR_PROJECTION_Y_PRODUCT"))
        ELSE /\ hpc = "Failed"
             /\ err = ARCSIException(SquareMsg)
             /\ \A f \in SceneFields(cls) : self[f] = selfBefore[f]

\* a Landsat2MSS header whose corners are no rectangle has been rejected
C7_Witness ==
    /\ cls = "Landsat2MSS"
    /\ Taken("Square")
    /\ ~HeaderIsRectangle
    /\ err = ARCSIException(SquareMsg)

\* the value of a field under its current key name if the header has it,
\* under its legacy key name otherwise
Preferred(current, legacy) ==
    IF Has(current) THEN headerParams[current] ELSE headerParams[legacy]

\* the field of key k is absent under each of its key names
AbsentField(c, k) ==
    /\ ~Has(k)
    /\ \A p \in AlternativeKeys(c) :
          (k = p[1] \/ k = p[2]) => (~Has(p[1]) /\ ~Has(p[2]))

\* the keys of the fields a header may lack
OptionalNames ==
    Range(OptionalKeys)
    \cup {"FILE_NAME_BAND_QUALITY", "FILE_NAME_QUALITY_L1_PIXEL"}

\* a mandatory field is absent under each of its key names
MandatoryFieldAbsent(c) ==
    \E k \in (DOMAIN FullHeader(c, "UTM")) \ OptionalNames :
       AbsentField(c, k)

\* the calibration fields with two key names, for band b
BandPairs(b) ==
    {<<QCalMinKey(b), QCalMinLegacyKey(b)>>,
     <<QCalMaxKey(b), QCalMaxLegacyKey(b)>>,
     <<RadMinKey(b), RadMinLegacyKey(b)>>,
     <<RadMaxKey(b), RadMaxLegacyKey(b)>>}

(***************************************************************************)
(* C8.  Alternative key names (Landsat5TM, LandsatTM and LandsatETM       *)
(* classes).  Every field with two key names holds, once it is read, the  *)
(* value of the current key when the header has it and of the legacy key  *)
(* otherwise: the row, the acquisition date and time, the UTM zone, and   *)
(* per band the quantized minimum and maximum and the radiance minimum    *)
(* and maximum.  A call that ends with a KeyError was given a header      *)
(* that lacks a mandatory field under each of its names, and a call that  *)
(* succeeds a header that has each of these fields under some name.       *)
(***************************************************************************)
C8_CurrentElseLegacy ==
    cls # "Landsat2MSS" =>
        /\ (Taken("RowPath") /\ self["row"] # selfBefore["row"]) =>
              self["row"] = IntOf[Preferred("WRS_ROW", "STARTING_ROW")]
        /\ (Taken("Acquisition")
            /\ self["acquisitionTime"] # selfBefore["acquisitionTime"]) =>
              self["acquisitionTime"] =
                 DateOf[Preferred("DATE_ACQUIRED", "ACQUISITION_DATE")]
                 \o TimeOf[Preferred("SCENE_CENTER_TIME",
                                     "SCENE_CENTER_SCAN_TIME")]
        /\ (ReachedSquare /\ headerParams["MAP_PROJECTION"] = "UTM") =>
              inProj = "WGS84UTM" \o Preferred("UTM_ZONE", "ZONE_NUMBER")
                                  \o "N"
        /\ Taken("Optional") =>
              \A n \in BandIdx(cls) :
                 LET b == Bands(cls)[n] IN
                 /\ self[CalMinField(b)] =
                       IntOf[Preferred(QCalMinKey(b), QCalMinLegacyKey(b))]
                 /\ self[CalMaxField(b)] =
                       IntOf[Preferred(QCalMaxKey(b), QCalMaxLegacyKey(b))]
                 /\ self[MinRadField(b)] =
                       IntOf[Preferred(RadMinKey(b), RadMinLegacyKey(b))]
                 /\ self[MaxRadField(b)] =
                       IntOf[Preferred(RadMaxKey(b), RadMaxLegacyKey(b))]
        /\ err.type = "KeyError" => MandatoryFieldAbsent(cls)
        /\ hpc = "Done" =>
              \A p \in {<<"WRS_ROW", "STARTING_ROW">>,
                        <<"DATE_ACQUIRED", "ACQUISITION_DATE">>,
                        <<"SCENE_CENTER_TIME", "SCENE_CENTER_SCAN_TIME">>}
                       \cup UNION {BandPairs(Bands(cls)[n]) :
                                   n \in BandIdx(cls)} :
                 Has(p[1]) \/ Has(p[2])

\* the spacecraft and sensor pairs the class expects
ExpectedPair(c, sc, sn) ==
    CASE c = "Landsat5TM" ->
           Upper(sc) \in {"LANDSAT_5", "LANDSAT5"} /\ Upper(sn) = "TM"
      [] c = "LandsatTM" ->
           /\ Upper(sc) \in {"LANDSAT_4", "LANDSAT4", "LANDSAT_5", "LANDSAT5"}
           /\ Upper(sn) = "TM"
      [] c = "LandsatETM" ->
           /\ Upper(sc) \in {"LANDSAT_7", "LANDSAT7"}
           /\ Upper(sn) \in {"ETM", "ETM+"}
      [] OTHER -> sc = "LANDSAT_2" /\ sn = "MSS"

\* the platform self.sensor names for an expected pair
Platform(c, sc) ==
    CASE c = "Landsat5TM" -> "LS5TM"
      [] c = "LandsatTM" ->
           IF Upper(sc) \in {"LANDSAT_4", "LANDSAT4"} THEN "LS4TM"
           ELSE "LS5TM"
      [] c = "LandsatETM" -> "LS7"
      [] OTHER -> "LS2MSS"

(***************************************************************************)
(* C9.  Recognition of the spacecraft and the sensor.  Once the sensor    *)
(* check of a header that holds SPACECRAFT_ID and SENSOR_ID has run: if   *)
(* the pair is not one the class expects, the call has failed with 'Do no *)
(* recognise the spacecraft and sensor or combination.'; if it is, that   *)
(* error is not raised and self.sensor names the matched platform.  And   *)
(* whenever that error is raised, no header key but the two identifiers   *)
(* has been looked up.                                                    *)
(***************************************************************************)
C9_SensorRecognised ==
    /\ (Taken("Sensor") /\ Has("SPACECRAFT_ID") /\ Has("SENSOR_ID")) =>
          IF ExpectedPair(cls, headerParams["SPACECRAFT_ID"],
                          headerParams["SENSOR_ID"])
          THEN /\ err # ARCSIException(SensorMsg)
               /\ self["sensor"] =
                     Platform(cls, headerParams["SPACECRAFT_ID"])
          ELSE /\ hpc = "Failed"
               /\ err = ARCSIException(SensorMsg)
    /\ err = ARCSIException(SensorMsg) =>
          /\ reads \subseteq {"SPACECRAFT_ID", "SENSOR_ID"}
          /\ steps = <<"Open", "Sensor">>

\* the LandsatETM class has rejected a header of another sensor
C9_Witness ==
    /\ cls = "LandsatETM"
    /\ Has("SPACECRAFT_ID")
    /\ Has("SENSOR_ID")
    /\ Upper(headerParams["SPACECRAFT_ID"]) = "LANDSAT_7"
    /\ headerParams["SENSOR_ID"] = "TM"
    /\ err = ARCSIException(SensorMsg)
    /\ reads = {"SPACECRAFT_ID", "SENSOR_ID"}

(***************************************************************************)
(* C10, as stated.  Only the headers with MAP_PROJECTION UTM or PS whose  *)
(* DATUM and ELLIPSOID are WGS84 come to the rectangularity check.        *)
(***************************************************************************)
C10_OnlyWGS84Proceeds ==
    ReachedSquare =>
        /\ headerParams["MAP_PROJECTION"] \in {"UTM", "PS"}
        /\ Has("DATUM") /\ headerParams["DATUM"] = "WGS84"
        /\ Has("ELLIPSOID") /\ headerParams["ELLIPSOID"] = "WGS84"

\* the header's projection is one the class supports: UTM or PS (UTM only
\* for Landsat2MSS), the DATUM and the ELLIPSOID it names being WGS84; a UTM
\* header of the Landsat5TM, LandsatTM and LandsatETM classes may name none
SupportedProjection(c) ==
    /\ Has("MAP_PROJECTION")
    /\ headerParams["MAP_PROJECTION"]
          \in (IF c = "Landsat2MSS" THEN {"UTM"} ELSE {"UTM", "PS"})
    /\ Has("DATUM") => headerParams["DATUM"] = "WGS84"
    /\ Has("ELLIPSOID") => headerParams["ELLIPSOID"] = "WGS84"
    /\ (c = "Landsat2MSS" \/ headerParams["MAP_PROJECTION"] = "PS") =>
          (Has("DATUM") /\ Has("ELLIPSOID"))

(***************************************************************************)
(* C10, as coded.  Only the headers with a supported projection come to   *)
(* the rectangularity check: MAP_PROJECTION is UTM or PS (UTM for the     *)
(* Landsat2MSS class) and the DATUM and ELLIPSOID the header names are    *)
(* WGS84; PS headers and Landsat2MSS headers must name both, UTM headers  *)
(* of the other classes may name none.  Every other header whose          *)
(* projection is examined is rejected by an exception.                    *)
(***************************************************************************)
C10_SupportedProjectionProceeds ==
    /\ ReachedSquare => SupportedProjection(cls)
    /\ (Taken("Projection") /\ ~SupportedProjection(cls)) =>
          (hpc = "Failed" /\ err # NoErr)

\* a UTM header without DATUM has come to the rectangularity check
C10_Witness ==
    /\ cls = "LandsatTM"
    /\ ReachedSquare
    /\ ~Has("DATUM")
    /\ headerParams["MAP_PROJECTION"] = "UTM"
(***************************************************************************)
(* Definitions used to state the properties of the mask, cloud-mask and    *)
(* target operations.                                                      *)
(***************************************************************************)

\* the operation has ended, by a return or by an exception
Ended == opEnd \in {"Returned", "Raised"}

\* a collaborator raised in the call
CollaboratorRaised == thrown.type \in {"OSError", "RuntimeError"}

(***************************************************************************)
(* C11.  generateValidImageDataMask of every Landsat class fails with     *)
(* 'There is no valid data in this image.' when the histogram of the      *)
(* valid-pixel mask has fewer than two rows.  In a call that finds fewer   *)
(* than two rows, neither the view-angle image nor the output mask is     *)
(* ever written, and, unless a collaborator raised first, the call ends   *)
(* in an ARCSIException with that message.  The property holds for        *)
(* LandsatTM and LandsatETM; Landsat5TM returns the output mask.          *)
(***************************************************************************)
C11_NoValidDataRaises ==
    (opName = "generateValidImageDataMask" /\ given.histRows < 2) =>
        /\ written \cap {"viewAngleImg", "outputImage"} = {}
        /\ (Ended /\ ~CollaboratorRaised) =>
              /\ opEnd = "Raised"
              /\ reached = ARCSIException(NoValidDataMsg)

\* the scratch files the call has written
WrittenScratch == written \cap ScratchFiles

\* the scratch files the call has written that are still there
LeftInScratch == WrittenScratch \cap disk

\* the operations that write under the scratch directory
UsesScratch ==
    opName \in {"generateCloudMask", "findDDVTargets",
                "estimateImageToAODUsingDDV"}

KeptOnSuccess ==
    CASE opName = "generateCloudMask" ->
           IF given.tmpDIRExisted THEN WrittenScratch ELSE {}
      [] opName = "findDDVTargets" -> {"tmpPath/thresImageClumpsFinal"}
      [] OTHER -> {}

CallsOfPath ==
    [k \in 1..Len(SelectSeq(Running, LAMBDA s : s.call # "raise")) |->
        SelectSeq(Running, LAMBDA s : s.call # "raise")[k].call]

\* the calls made are the first calls of the path, each made once, the
\* last of them being the one that raised, if one did
EachAttemptedOnce ==
    /\ Len(attempts) <= Len(CallsOfPath)
    /\ attempts = SubSeq(CallsOfPath, 1, Len(attempts))
    /\ CollaboratorRaised =>
          /\ opEnd = "Raised"
          /\ attempts # << >>
          /\ attempts[Len(attempts)] = thrown.arg

\* the exception was raised by the gdalwarp call of applyImageDataMask,
\* which sits in try ... except OSError
WarpRaisedOSError ==
    /\ opName = "applyImageDataMask"
    /\ opEnd = "Raised"
    /\ thrown = OSError("subprocess.call")
    /\ Running[opPc].wrap # ""

FailedSoFar ==
    [k \in 1..Len(SelectSeq(handled,
                   LAMBDA h : h.how \in {"exit status", "OSError",
                                         "Exception"})) |->
        SelectSeq(handled,
                  LAMBDA h : h.how \in {"exit status", "OSError",
                                        "Exception"})[k].cmd.file]

(***************************************************************************)
(* C12.  With a failure-list path, after each entry of the manifest has   *)
(* been dealt with, the failure-list file holds exactly the entries dealt *)
(* with so far whose transfer failed, in the order of the manifest.  The  *)
(* property fails for a copy command that ends with an exit status other  *)
(* than 0: subprocess.call returns it, nothing is raised and the entry is *)
(* not listed.                                                             *)
(***************************************************************************)
C12_FailureListHoldsFailures ==
    (outFailLst /\ dwnPc \in {"Loop", "Done"} /\ handled # << >>) =>
        failFile = FailedSoFar

\* the lines of the manifest that are not blank, stripped, in order
NonBlankLines ==
    SelectSeq([n \in 1..Len(manifest) |-> Strip(manifest[n])],
              LAMBDA l : l # "")

\* the entries dealt with are the first non-blank lines of the manifest, in
\* order, each once; an entry is skipped exactly when overwrite is off and
\* its basename is in the output directory, and otherwise the copy command
\* is called for it once, whatever became of the entries before it
EachLineHandledOnce ==
    /\ Len(handled) <= Len(NonBlankLines)
    /\ \A k \in 1..Len(handled) :
        /\ handled[k].cmd.file = NonBlankLines[k]
        /\ handled[k].how = "skipped" <=> (~overwrite /\ handled[k].there)
    /\ dwnPc = "Done" => Len(handled) = Len(NonBlankLines)

BesidesWavelength(c) == [c EXCEPT !.wavelength = "any"]

\* the bands of the runs of calc6SCoefficients, in order
BandsInOrder == <<"B1", "B2", "B3", "B4", "B5", "B7">>

\* the name of the band of run k for the class
BandOfRun(k) ==
    (IF sixCls = "LandsatETM" THEN "LANDSAT_ETM_" ELSE "LANDSAT_TM_")
        \o BandsInOrder[k]

\* C14: calc6SCoefficients calls the radiative-transfer model once for each
\* band, six times for a returned matrix, for bands 1, 2, 3, 4, 5 and 7 in
\* that order; every run has the geometry, altitude, correction mode and AOD
\* that the arguments give and the runs differ in the wavelength only; and
\* row k of the returned matrix holds the outputs of run k and of no other
C14_OneRunForEachBand ==
    sixOp = "calc6SCoefficients" =>
        /\ Len(runs) <= 6
        /\ \A k \in 1..Len(runs) :
            /\ runs[k].wavelength = BandOfRun(k)
            /\ BesidesWavelength(runs[k]) = BesidesWavelength(runs[1])
            /\ runs[k].altitude = sixArgs.surfaceAltitude
            /\ runs[k].aot550 = sixArgs.aotVal
            /\ runs[k].atmos_corr =
                  IF sixArgs.useBRDF THEN "AtmosCorrBRDFFromRadiance(200)"
                  ELSE "AtmosCorrLambertianFromRadiance(200)"
        /\ sixPc = "Returned" =>
            /\ Len(runs) = 6
            /\ Len(outLog) = 6
            /\ DOMAIN result = 1..6
            /\ \A k \in 1..6 :
                /\ DOMAIN result[k] = 1..Columns(sixCls)
                /\ \A c \in 1..Columns(sixCls) :
                      result[k][c] = Float32(outLog[k][Keys6S[c]])

\* a matrix was returned whose rows come from runs with different outputs
C14_Witness ==
    /\ sixOp = "calc6SCoefficients"
    /\ sixPc = "Returned"
    /\ sixArgs.useBRDF
    /\ outLog[1]["coef_xa"] # outLog[2]["coef_xa"]
    /\ result[1] # result[2]
    /\ result[6] # result[1]

\* the keys of the outputs of a run that the operation needs
RequiredKeys ==
    IF sixOp = "calc6SCoefficients" /\ sixCls # "Landsat5TM"
    THEN {"coef_xa", "coef_xb", "coef_xc", "direct_solar_irradiance",
          "diffuse_solar_irradiance", "environmental_irradiance"}
    ELSE {"coef_xa", "coef_xb", "coef_xc"}

\* C15: when the outputs of a run lack a required key, the operation raises
\* at that band: that run is the last one (no further run, no second
\* attempt) and nothing is returned, neither a partly filled matrix nor a
\* distance
C15_LackingKeyRaisesAtThatBand ==
    \A k \in 1..Len(outLog) :
        (RequiredKeys \ DOMAIN outLog[k]) # {} =>
            /\ k = Len(outLog)
            /\ k = Len(runs)
            /\ k = band
            /\ sixPc = "Raised"
            /\ sixErr.type = "KeyError"
            /\ sixErr.arg \in RequiredKeys \ DOMAIN outLog[k]
            /\ result = NoResult

\* the fourth run of calc6SCoefficients lacked a key after three rows had
\* been filled
C15_Witness ==
    /\ sixOp = "calc6SCoefficients"
    /\ sixCls = "LandsatTM"
    /\ Len(outLog) = 4
    /\ "diffuse_solar_irradiance" \notin DOMAIN outLog[4]
    /\ sixPc = "Raised"
    /\ sixsCoeffs[3] # sixsCoeffs[5]

\* the single run for the blue band lacked a key
C15_BlueBandWitness ==
    /\ sixOp = "run6SToOptimiseAODValue"
    /\ Len(outLog) = 1
    /\ "coef_xc" \notin DOMAIN outLog[1]
    /\ sixPc = "Raised"

\* the absolute value
Magnitude(x) == IF x < 0 THEN 0 - x ELSE x

\* t = a.radBlueVal - b of the call that returned
InvertedRadiance ==
    outLog[1]["coef_xa"] * sixArgs.radBlueVal - outLog[1]["coef_xb"]

\* 1 + c.t, the denominator of the predicted reflectance t/(1 + c.t)
Denominator == 1 + outLog[1]["coef_xc"] * InvertedRadiance

\* C18: the value d that run6SToOptimiseAODValue returns is
\* |refl - predBlueVal| for refl = t/(1 + c.t) and t = a.radBlueVal - b,
\* with a, b, c the outputs of the run: d is never negative and is 0 exactly
\* when refl equals predBlueVal (where 1 + c.t is 0 there is no refl, and
\* d is inf or nan)
C18_DistanceFromPrediction ==
    (sixOp = "run6SToOptimiseAODValue" /\ sixPc = "Returned") =>
        IF Denominator = 0
        THEN result.num \in {"inf", "nan"}
        ELSE /\ result.den > 0
             /\ result.num >= 0
             \* d = |t/D - p| = |t - p.D| / |D|
             /\ result.num * Magnitude(Denominator) =
                   result.den * Magnitude(InvertedRadiance
                                   - sixArgs.predBlueVal * Denominator)
             /\ result.num = 0 <=>
                   InvertedRadiance = sixArgs.predBlueVal * Denominator

\* a distance of 0 was returned for a reflectance that is not 0, and the
\* denominator was not 1
C18_Witness ==
    /\ sixOp = "run6SToOptimiseAODValue"
    /\ sixPc = "Returned"
    /\ Denominator \notin {0, 1}
    /\ sixArgs.predBlueVal > 0
    /\ result.num = 0

\* a distance above 0 was returned
C18_FarWitness ==
    /\ sixOp = "run6SToOptimiseAODValue"
    /\ sixPc = "Returned"
    /\ Denominator < 0
    /\ result.num > result.den

(***************************************************************************)
(* The tables of the LUT operations.                                       *)
(***************************************************************************)
\* the table the caller gave to the call under way
GivenTable == lutBefore

\* the call under way, or the last one, has returned
LutReturned == lutResult # NoReturn

\* C16: a call that is given a table calls neither the LUT builder nor the
\* radiative-transfer estimator, passes the given table to the apply step
\* and returns it as it was; a call that is given None builds a table
\* exactly once and returns it; so in a sequence of calls that give back
\* the table returned before, and of which none raises, no more than one
\* table is ever built (a call that raises returns no table to give back)
C16_GivenTableIsNotRebuilt ==
    lutCalls > 0 =>
        /\ ~GivenTable.isNone =>
            /\ builderCalls = 0
            /\ estimatorCalls = 0
            /\ elevCoeffs = GivenTable
            /\ lutPc = "Applied" => lutApplied = GivenTable
            /\ LutReturned =>
                /\ lutApplied = GivenTable
                /\ lutResult[2] = GivenTable
        /\ (GivenTable.isNone /\ LutReturned) =>
            /\ builderCalls = 1
            /\ estimatorCalls >= 1
            /\ ~lutResult[2].isNone
            /\ lutResult[2] = lutApplied
        /\ threaded => tablesBuilt <= 1 + lutFailed

\* the second call of a sequence that gives the returned table back has
\* returned, the table having more than one elevation
C16_Witness ==
    /\ lutCalls = 2
    /\ threaded
    /\ lutFailed = 0
    /\ LutReturned
    /\ ~GivenTable.isNone
    /\ tablesBuilt = 1
    /\ Len(lutHeld.list) > 1
    /\ lutResult[2] = lutHeld

\* C17: the table that a call applies is the table that would be built
\* from the arguments of that call, so a table built for other arguments
\* is never applied
C17_AppliedTableIsOfOwnKey ==
    lutPc = "Applied" => lutApplied = BuiltTable(lutOp, lutArgs)

(***************************************************************************)
(* The range of the candidates of the AOD search.                          *)
(***************************************************************************)
\* a lies in the closed interval from aotValMin to aotValMax
WithinRange(a) == aotValMin <= a /\ a <= aotValMax

\* C28: every candidate AOD that the search evaluates, and so every AOD
\* assigned to a flagged segment and every AOD passed to the interpolator,
\* lies in the closed interval [aotValMin, aotValMax], for every range that
\* passes the range check
C28_CandidatesWithinRange ==
    numAOTValTests # -1 =>
        /\ \A k \in 1..Len(evals) : WithinRange(evals[k][1])
        /\ \A s \in SegIds :
              (Handled(s) /\ PredictAOTFor[s] = 1)
                  => WithinRange(AssignedAOT(s))
        /\ \A c \in 1..Len(interpCalls) :
              \A k \in 1..Len(interpCalls[c].aotVals) :
                  WithinRange(interpCalls[c].aotVals[k])

(***************************************************************************)
(* The entries that the download skips.                                    *)
(***************************************************************************)
\* the passes of the loop so far that dealt with an entry of basename b
PassesOf(b) == {k \in 1..Len(handled) : Basename(handled[k].cmd.file) = b}

\* a file of basename b was in the output directory when the run began:
\* the first pass that dealt with the name found it there or, if no pass
\* has dealt with it, it is there now
PresentAtStart(b) ==
    IF PassesOf(b) = {} THEN b \in outDIR
    ELSE handled[CHOOSE k \in PassesOf(b) :
                    \A m \in PassesOf(b) : k <= m].there

\* C30: with overwrite off an entry is skipped only if its file was in the
\* output directory before the run began; an entry whose file was absent
\* then is passed to the copy command, whatever entries were handled before
C30_SkippedOnlyIfPresentAtStart ==
    ~overwrite =>
        \A k \in 1..Len(handled) :
            handled[k].how = "skipped"
                => PresentAtStart(Basename(handled[k].cmd.file))

(***************************************************************************)
(* The order of the rows of the segment table.                             *)
(***************************************************************************)
\* the AOT that the run has assigned to the segment of its k-th row
AOTInThisOrder(k) == ordAOT[k]

\* the AOT that a run over the rows in the order of the segment ids assigns
\* to segment s
AOTInIdOrder(s) == InIdOrder(ordRows, ordMin, ordTests)[s]

\* C22: the AOD assigned to a segment is the same in whatever order the
\* rows of the segment table are dealt with: it depends on the segment's
\* own attributes and the scene-wide parameters only, the best candidate
\* and the best distance being set anew at the first candidate of each
\* segment
C22_OrderOfRowsIsImmaterial ==
    \A k \in 1..Len(ordSeq) : AOTInThisOrder(k) = AOTInIdOrder(ordSeq[k])

\* segment 2 was searched before segment 1; the best distance of segment 2
\* is below every distance of segment 1, and the two were assigned
\* different candidates
C22_Witness ==
    /\ ordSeq = <<2, 1>>
    /\ ordTests = 2
    /\ ordRows[1].flag = 1
    /\ ordRows[2].flag = 1
    /\ ordRows[2].dist[1] = 0
    /\ \A k \in 0..1 : ordRows[1].dist[k] > 0
    /\ ordRows[1].dist[0] < ordRows[1].dist[1]
    /\ ordAOT = <<ordMin + AOTStep, ordMin>>


\* C21: once extractHeaderParameters has succeeded, an operation on the
\* object (here one of the mask, cloud-mask and target operations) leaves
\* the fields of the object as the extraction left them: at every statement
\* of the operation and after it, self.hasImageDataMask has the value it
\* had when the extraction returned.
C21_FieldsUnchangedByOperations ==
    opEnd # "Idle" => hasImageDataMask = AfterExtraction(opCls)

(***************************************************************************)
(* Claims on the fields extractHeaderParameters leaves in the object.      *)
(***************************************************************************)
CollectionClasses == {"LandsatTM", "LandsatETM"}

\* the LSMSK calls of generateCloudMask on an object with fields s, whatever
\* the files are
LSMSKCalls(s) ==
    {[Plain EXCEPT !.method = "LSMSK", !.sameProj = p, !.qa = q,
                   !.collection = s["collection_num"], !.tmpDIRExisted = t] :
       p \in BOOLEAN, q \in BOOLEAN, t \in BOOLEAN}

\* the statements ss hold the raise of the unknown collection
RaisesUnknownCollection(ss) ==
    \E n \in 1..Len(ss) :
       ss[n].throw =
          ARCSIException("Can only read Collection 1 and 2 cloud masks.")

\* C25: in the TM and ETM classes collection_num is 1 or 2 once
\* extractHeaderParameters has returned, and an LSMSK call of
\* generateCloudMask comes to the raise 'Can only read Collection 1 and 2
\* cloud masks' only on an object whose extraction has not returned and
\* whose collection_num is still 0.
C25_CollectionKnownAfterExtraction ==
    cls \in CollectionClasses =>
       /\ hpc = "Done" => self["collection_num"] \in {1, 2}
       /\ \A g \in LSMSKCalls(self) :
             RaisesUnknownCollection(GenerateCloudMask(g, FALSE)) =>
                hpc # "Done" /\ self["collection_num"] = 0

\* an ETM header of collection 2 has been extracted, and the LSMSK call on
\* the object decodes the collection 2 QA band
C25_Witness ==
    /\ cls = "LandsatETM"
    /\ hpc = "Done"
    /\ headerParams["COLLECTION_NUMBER"] = "02"
    /\ self["collection_num"] = 2
    /\ \A g \in LSMSKCalls(self) :
          g.qa => \E n \in 1..Len(GenerateCloudMask(g, FALSE)) :
                     GenerateCloudMask(g, FALSE)[n].call =
                        "parse_landsat_c2_qa_pixel_img"

\* a TM object before its extraction: an LSMSK call that finds a QA band
\* comes to the raise
C25_UnextractedWitness ==
    /\ cls = "LandsatTM"
    /\ hpc = "Ready"
    /\ self["collection_num"] = 0
    /\ \E g \in LSMSKCalls(self) :
          RaisesUnknownCollection(GenerateCloudMask(g, FALSE))

\* C26: extractHeaderParameters is all-or-nothing: when the call raises,
\* every field of the object has the value it had when the call began.
C26_FailedCallLeavesFieldsAlone ==
    hpc = "Failed" => self = selfBefore

\* the values the header holds for a field under its two key names
OwnValues(current, legacy) ==
    {Str2Float(headerParams[k]) :
       k \in {current, legacy} \cap DOMAIN headerParams}

\* the lists the loop of family fam builds from the header
ListsOf(fam) == StoreBands([Call EXCEPT !.err = NoErr], cls, fam)

\* C27: when extractHeaderParameters of the Landsat5TM or LandsatTM class
\* has returned, the lists of the quantized and the radiance minima and
\* maxima hold 7 entries each, and bNCalMin, bNCalMax, bNMinRad and bNMaxRad
\* hold a value the header gives for band N, for every N in 1..7.
C27_ListsHoldBandsOwnValues ==
    (cls \in {"Landsat5TM", "LandsatTM"} /\ hpc = "Done") =>
       \A fam \in {"QCal", "Rad"} :
          /\ Len(ListsOf(fam).minList) = 7
          /\ Len(ListsOf(fam).maxList) = 7
          /\ \A n \in 1..7 :
                LET b == Bands(cls)[n] IN
                /\ self[MinField(fam, b)] \in
                      OwnValues(MinKey(fam, b), MinLegacyKey(fam, b))
                /\ self[MaxField(fam, b)] \in
                      OwnValues(MaxKey(fam, b), MaxLegacyKey(fam, b))

\* the bands of the header have each key of a pair under the same naming
PairsUnderOneNaming ==
    \A fam \in {"QCal", "Rad"} : \A n \in BandIdx(cls) :
       LET b == Bands(cls)[n] IN
       Has(MinKey(fam, b)) = Has(MaxKey(fam, b))

\* C29: what a call of extractHeaderParameters does depends on the header
\* it is given only: the call raises what a call on a new object given this
\* header raises, and when it returns the fields of the object are those
\* of the new object.
C29_OutcomeDependsOnHeaderOnly ==
    hpc \in {"Done", "Failed"} =>
       /\ err = OnNewSensor.err
       /\ hpc = "Done" => self = OnNewSensor.self

\* the headers given so far all hold every optional key, and the object
\* has no inWKT from a header of another projection
SameShapeOfHeaders ==
    /\ \A n \in 1..Len(OptionalFields) :
          OptionalFields[n] \in DOMAIN self =>
             (self[OptionalFields[n]] # 0 => Has(OptionalKeys[n]))
    /\ selfBefore["inWKT"] \in {"", inProj}

(***************************************************************************)
(* The claim on the reader of the header file.                             *)
(***************************************************************************)
\* the places of the equals signs of line l
EqualsOf(l) == {n \in 1..Len(l) : l[n] = EqualsSign}

\* the characters a..b of line l without the blanks before the first and
\* after the last character that is no blank
Between(l, a, b) ==
    LET marks == {n \in a..b : l[n] # Blank} IN
    IF marks = {} THEN << >>
    ELSE SubSeq(l, CHOOSE n \in marks : \A m \in marks : n <= m,
                   CHOOSE n \in marks : \A m \in marks : m <= n)

\* the characters of t that are no double quote, in order
Unquoted(t) ==
    LET keep == {n \in 1..Len(t) : t[n] # Quote} IN
    [m \in 1..Cardinality(keep) |->
        t[CHOOSE n \in keep : Cardinality({x \in keep : x <= n}) = m]]

\* the key and the value of a line with one equals sign
LineKey(l) == Between(l, 1, (CHOOSE n \in EqualsOf(l) : TRUE) - 1)
LineValue(l) ==
    Unquoted(Between(l, (CHOOSE n \in EqualsOf(l) : TRUE) + 1, Len(l)))

\* the lines with exactly one equals sign among the first n
OneEquals(n) == {m \in 1..n : Cardinality(EqualsOf(hFile[m])) = 1}

\* the last of the first n lines that has key k
LastWith(k, n) ==
    CHOOSE m \in OneEquals(n) :
       /\ LineKey(hFile[m]) = k
       /\ \A x \in OneEquals(n) : LineKey(hFile[x]) = k => x <= m

\* C23: the reader stores every line with exactly one '=' under its key,
\* the GROUP and END_GROUP lines too, and nothing else: after any number of
\* lines the keys of the dict are the stripped keys of those lines, and the
\* value of a key is the stripped value, without its double quotes, of the
\* last line that has the key.
C23_DictOfLinesWithOneEquals ==
    mtlPc # "Idle" =>
       /\ DOMAIN mtlParams = {LineKey(hFile[m]) : m \in OneEquals(lineNo)}
       /\ \A k \in DOMAIN mtlParams :
             mtlParams[k] = LineValue(hFile[LastWith(k, lineNo)])

\* a file of two GROUP lines has been read: the key is stored, with the
\* value of the second line, its quote removed
C23_Witness ==
    /\ mtlPc = "Closed"
    /\ hFile = <<<<"GROUP", "=", "GROUP">>, <<"GROUP", "=", "\"">>>>
    /\ mtlParams = (<<"GROUP">> :> << >>)

\* a line with two equals signs and a line with none have been ignored
C23_IgnoredWitness ==
    /\ mtlPc = "Closed"
    /\ hFile = <<<<"END_GROUP", "=", "=">>, <<" ", "END_GROUP">>>>
    /\ mtlParams = << >>

(***************************************************************************)
(* The claim on the cloud mask of the LandsatTM and LandsatETM classes.    *)
(***************************************************************************)
UnknownOptionMsg ==
    "Landsat only has FMASK and LSMSK cloud masking options; option provided is unknown."
NoQABandMsg ==
    "The QA band is not present - cannot use this for cloud masking."

\* the pixel is cloud, or shadow, in the image the branch of the call reads
IsCloud(g, px) ==
    CASE g.method \in {"None", "FMASK"} -> px.fmask = 2
      [] g.collection = 1 -> px.qa \in {752, 756, 760, 764}
      [] OTHER -> px.DilatedCloud = 1 \/ px.Cloud = 1
IsShadow(g, px) ==
    CASE g.method \in {"None", "FMASK"} -> px.fmask = 3
      [] g.collection = 1 ->
           px.qa \in {928, 932, 936, 940, 960, 964, 968, 972}
      [] OTHER -> px.CloudShadow = 1

\* the call raised in os.makedirs, before the method is looked at
FailedBeforeDispatch ==
    /\ attempts = <<"os.makedirs">>
    /\ thrown \in {OSError("os.makedirs"), RuntimeError("os.makedirs")}

\* C24: generateCloudMask of the LandsatTM and LandsatETM classes.  With
\* cloud_msk_methods None or 'FMASK' it runs fmask, with 'LSMSK' it reads
\* the QA band and raises when there is none, with any other value it
\* raises 'option provided is unknown'.  The output of a call that returns
\* holds 1 for cloud, 2 for shadow that is not cloud, and 0 elsewhere.
C24_CloudMaskDispatchAndClasses ==
    (opName = "generateCloudMask" /\ opEnd \in {"Returned", "Raised"}) =>
       /\ given.method \notin {"None", "FMASK", "LSMSK"} =>
             /\ opEnd = "Raised"
             /\ FailedBeforeDispatch
                \/ reached = ARCSIException(UnknownOptionMsg)
       /\ (given.method = "LSMSK" /\ ~given.qa) =>
             /\ opEnd = "Raised"
             /\ FailedBeforeDispatch \/ reached = ARCSIException(NoQABandMsg)
       /\ opEnd = "Returned" =>
             /\ "outputImage" \in written
             /\ ("doFmask" \in Range(attempts))
                   = (given.method \in {"None", "FMASK"})
             /\ ("tmpBaseDIR/tmpFMaskOut" \in written)
                   = (given.method \in {"None", "FMASK"})
             /\ \A px \in Pixels :
                   /\ OutputPixel(given, px) \in {0, 1, 2}
                   /\ (OutputPixel(given, px) = 1) = IsCloud(given, px)
                   /\ (OutputPixel(given, px) = 2)
                         = (IsShadow(given, px) /\ ~IsCloud(given, px))

\* an LSMSK call on a collection 2 scene has returned: a pixel that is
\* both cloud and shadow is 1 in the output
C24_Witness ==
    /\ opName = "generateCloudMask"
    /\ opEnd = "Returned"
    /\ given.method = "LSMSK"
    /\ given.collection = 2
    /\ "parse_landsat_c2_qa_pixel_img" \in Range(attempts)
    /\ \E px \in Pixels :
          /\ px.Cloud = 1
          /\ px.CloudShadow = 1
          /\ OutputPixel(given, px) = 1

\* a call with another method has raised
C24_UnknownWitness ==
    /\ opName = "generateCloudMask"
    /\ given.method = "ACOLITE"
    /\ reached = ARCSIException(UnknownOptionMsg)

=============================================================================
